---- MODULE Spec2Model ----
(***************************************************************************)
(* Generic Repository/Query data-access layer of go-api-boilerplate:       *)
(* the GORM (relational) adapter and the MongoDB (document) adapter of     *)
(* libraries.Repository[T] / libraries.Query[T], and the pagination        *)
(* executor.  The store is the external collaborator: a table/collection   *)
(* of records keyed by a native identifier.                                *)
(***************************************************************************)
EXTENDS FiniteSets, Integers, Sequences, TLC

(* ------------------------------ bounds --------------------------------- *)
MaxId == 4          \* native identifiers 1..MaxId can hold a record
MaxChain == 2       \* chained builder calls after the query-entry call
OidHexLen == 2      \* hex digits of an ObjectID string (24 in the driver)
IntBits == 3        \* width of a Go int (64 on the target)
NumCallers == 2     \* concurrent callers of Increment / Decrement
MaxBatch == 3       \* longest ids / data list of a batch call
MaxTotal == 60      \* largest record count fed to the page arithmetic
MaxPage == 4        \* largest page / perPage request of the paginated scenarios

(* ------------------------------ data ----------------------------------- *)
Keys == 1..MaxId
Null == "NULL"
RoleCycle == <<"admin", "moderator", "user", Null>>
Roles == {"admin", "moderator", "user"}
Adapters == {"gorm", "mongo"}

Rec(role, counter) == [role |-> role, counter |-> counter]

\* the record stored under key k in the query scenarios
SeedRec(k) == Rec(RoleCycle[((k - 1) % Len(RoleCycle)) + 1], k - 1)

\* a store is a function from the present native identifiers to records
NoRows == <<>>
Present(st) == DOMAIN st
Restrict(st, S) == [k \in S |-> st[k]]

RECURSIVE SortedSeq(_)
SortedSeq(S) ==
    IF S = {} THEN <<>>
    ELSE LET m == CHOOSE x \in S : \A y \in S : x <= y
         IN <<m>> \o SortedSeq(S \ {m})

\* rows of a result after skipping and limiting; a skip or limit that is not
\* positive is not applied
SkipLimit(seq, skip, limit) ==
    LET sk == IF skip > 0 THEN skip ELSE 0
        to == IF limit > 0 /\ sk + limit < Len(seq) THEN sk + limit ELSE Len(seq)
    IN IF sk + 1 > Len(seq) THEN <<>> ELSE SubSeq(seq, sk + 1, to)

VARIABLES adapter, store, mq, gq, qtrace, qres, last, ctr, batch, meta, pg, heap

\* the store's ordering of a result by a sort specification: terms
\* [key, value] with value 1 ascending and -1 descending, the first term
\* deciding, a later one only between records equal on all earlier ones;
\* records equal on every term come in key order. Strings are compared by
\* their place in the alphabet, NULL before every string
SortValue(row, field) ==
    IF field = "counter" THEN row.counter
    ELSE CASE row.role = "admin" -> 1 [] row.role = "moderator" -> 2 [] row.role = "user" -> 3 [] OTHER -> 0
RECURSIVE Compare(_, _, _, _)
Compare(r1, r2, terms, i) ==
    IF i > Len(terms) THEN 0
    ELSE LET a == SortValue(r1, terms[i].key)
             b == SortValue(r2, terms[i].key)
         IN IF a = b THEN Compare(r1, r2, terms, i + 1)
            ELSE IF (a < b) <=> (terms[i].value = 1) THEN -1 ELSE 1
Before(st, j, k, terms) ==
    LET c == Compare(st[j], st[k], terms, 1) IN c < 0 \/ (c = 0 /\ j < k)
Ordered(S, st, terms) ==
    IF Len(terms) = 0 THEN SortedSeq(S)
    ELSE [i \in 1..Cardinality(S) |->
            CHOOSE k \in S : Cardinality({j \in S : Before(st, j, k, terms)}) = i - 1]

vars == <<adapter, store, mq, gq, qtrace, qres, last, ctr, batch, meta, pg, heap>>

(* ------------------------- errors and identifiers ---------------------- *)
NilErr == "nil"
ErrRecordNotFound == "ErrRecordNotFound"
ErrInvalidID == "ErrInvalidID"
GormSentinel == "gorm.ErrRecordNotFound"
MongoSentinel == "mongo.ErrNoDocuments"
DriverError == "driver error"

\* an identifier as callers pass it (id any): a Go int, a string (a sequence
\* of characters) or a native primitive.ObjectID
Chars == {"0", "1", "g"}
IntId(n) == [kind |-> "int", n |-> n, s |-> <<>>]
StrId(s) == [kind |-> "str", n |-> 0, s |-> s]
OidId(n) == [kind |-> "oid", n |-> n, s |-> <<>>]

RECURSIVE StringsOfLen(_)
StringsOfLen(n) ==
    IF n = 0 THEN {<<>>}
    ELSE {Append(t, c) : t \in StringsOfLen(n - 1), c \in Chars}
Strings == UNION {StringsOfLen(n) : n \in 0..(OidHexLen + 1)}

NativeIds == 0..(MaxId + 1)
RelationalIds == {IntId(n) : n \in NativeIds} \cup {StrId(s) : s \in Strings}
DocumentIds == {OidId(n) : n \in NativeIds} \cup {StrId(s) : s \in Strings} \cup {IntId(n) : n \in 1..2}

DigitVal(c) == CASE c = "0" -> 0 [] c = "1" -> 1 [] OTHER -> -1

\* positional value of a digit string in the given base; -1 when a character
\* is no digit
RECURSIVE DigitsValue(_, _)
DigitsValue(s, base) ==
    IF Len(s) = 0 THEN 0
    ELSE LET d == DigitVal(s[Len(s)])
             rest == DigitsValue(SubSeq(s, 1, Len(s) - 1), base)
         IN IF d < 0 \/ rest < 0 THEN -1 ELSE rest * base + d

\* primitive.ObjectIDFromHex: the string must have the ObjectID's length and
\* decode as hex
ObjectIDFromHex(s) ==
    IF Len(s) # OidHexLen THEN [ok |-> FALSE, oid |-> 0]
    ELSE LET v == DigitsValue(s, 16)
         IN IF v < 0 THEN [ok |-> FALSE, oid |-> 0] ELSE [ok |-> TRUE, oid |-> v]

\* strconv.Atoi on an unsigned decimal string
Atoi(s) ==
    IF Len(s) = 0 THEN [ok |-> FALSE, n |-> 0]
    ELSE LET v == DigitsValue(s, 10)
         IN IF v < 0 THEN [ok |-> FALSE, n |-> 0] ELSE [ok |-> TRUE, n |-> v]

(* ---------------------- document adapter: filters ---------------------- *)
\* bson.M conditions: one value per key of the filter document
MEq(v) == [op |-> "eq", args |-> <<v>>, subs |-> <<>>]
MIn(vals) == [op |-> "in", args |-> vals, subs |-> <<>>]
MNin(vals) == [op |-> "nin", args |-> vals, subs |-> <<>>]
MBetween(lo, hi) == [op |-> "between", args |-> <<lo, hi>>, subs |-> <<>>]
MEqNull == [op |-> "eqnull", args |-> <<>>, subs |-> <<>>]
MNeNull == [op |-> "nenull", args |-> <<>>, subs |-> <<>>]
MGroup(subs) == [op |-> "group", args |-> <<>>, subs |-> subs]

EmptyFilter == <<>>
HasKey(f, k) == k \in DOMAIN f
SetKey(f, k, v) == (k :> v) @@ f

Elems(seq) == {seq[i] : i \in 1..Len(seq)}

\* the document store's matching of one field condition
MongoLeaf(val, c) ==
    CASE c.op = "eq" -> val = c.args[1]
      [] c.op = "in" -> val \in Elems(c.args)
      [] c.op = "nin" -> val \notin Elems(c.args)
      [] c.op = "between" -> val >= c.args[1] /\ val <= c.args[2]
      [] c.op = "eqnull" -> val = Null
      [] c.op = "nenull" -> val # Null
      [] OTHER -> FALSE

\* the document store's matching of a filter document: every top-level key
\* must hold; $and / $or / $nor hold lists of filter documents
RECURSIVE MongoMatch(_, _)
MongoMatch(doc, f) ==
    \A k \in DOMAIN f :
        CASE k = "$and" -> \A i \in 1..Len(f[k].subs) : MongoMatch(doc, f[k].subs[i])
          [] k = "$or" -> \E i \in 1..Len(f[k].subs) : MongoMatch(doc, f[k].subs[i])
          [] k = "$nor" -> \A i \in 1..Len(f[k].subs) : ~MongoMatch(doc, f[k].subs[i])
          [] OTHER -> MongoLeaf(doc[k], f[k])

MongoMatching(st, f) == {k \in Present(st) : MongoMatch(st[k], f)}

\* MongoQuery struct
NewMongoQuery(filter) == [filter |-> filter, sort |-> <<>>, limit |-> 0, skip |-> 0]

MongoRepository_Where(field, value) == NewMongoQuery(SetKey(EmptyFilter, field, MEq(value)))
MongoRepository_WhereIn(field, values) == NewMongoQuery(SetKey(EmptyFilter, field, MIn(values)))
MongoRepository_WhereNotIn(field, values) == NewMongoQuery(SetKey(EmptyFilter, field, MNin(values)))
MongoRepository_WhereBetween(field, lo, hi) == NewMongoQuery(SetKey(EmptyFilter, field, MBetween(lo, hi)))
MongoRepository_WhereNull(field) == NewMongoQuery(SetKey(EmptyFilter, field, MEqNull))
MongoRepository_WhereNotNull(field) == NewMongoQuery(SetKey(EmptyFilter, field, MNeNull))
MongoRepository_Limit(limit) == [NewMongoQuery(EmptyFilter) EXCEPT !.limit = limit]
MongoRepository_Offset(offset) == [NewMongoQuery(EmptyFilter) EXCEPT !.skip = offset]

MongoQuery_Where(q, field, value) == [q EXCEPT !.filter = SetKey(q.filter, field, MEq(value))]
MongoQuery_WhereIn(q, field, values) == [q EXCEPT !.filter = SetKey(q.filter, field, MIn(values))]
MongoQuery_WhereNotIn(q, field, values) == [q EXCEPT !.filter = SetKey(q.filter, field, MNin(values))]
MongoQuery_WhereBetween(q, field, lo, hi) == [q EXCEPT !.filter = SetKey(q.filter, field, MBetween(lo, hi))]
MongoQuery_WhereNull(q, field) == [q EXCEPT !.filter = SetKey(q.filter, field, MEqNull)]
MongoQuery_WhereNotNull(q, field) == [q EXCEPT !.filter = SetKey(q.filter, field, MNeNull)]
MongoQuery_Limit(q, limit) == [q EXCEPT !.limit = limit]
MongoQuery_Offset(q, offset) == [q EXCEPT !.skip = offset]

\* OrWhere: without a $or key the whole filter moves under $and, then the
\* new condition is appended to the (possibly absent) $or list
MongoQuery_OrWhere(q, field, value) ==
    LET moved == IF ~HasKey(q.filter, "$or") /\ DOMAIN q.filter # {}
                 THEN SetKey(EmptyFilter, "$and", MGroup(<<q.filter>>))
                 ELSE q.filter
        orConditions == IF HasKey(moved, "$or") THEN moved["$or"].subs ELSE <<>>
        appended == Append(orConditions, SetKey(EmptyFilter, field, MEq(value)))
    IN [q EXCEPT !.filter = SetKey(moved, "$or", MGroup(appended))]

\* Find: filter, natural order, then skip and limit when positive
MongoQuery_Find(q, st) == SkipLimit(Ordered(MongoMatching(st, q.filter), st, q.sort), q.skip, q.limit)

MongoQuery_Count_All(q, st) == Cardinality(Present(st))
\* Count: CountDocuments on the filter alone
MongoQuery_Count(q, st) == Cardinality(MongoMatching(st, q.filter))

(* ---------------------- relational adapter: clauses -------------------- *)
\* one expression of the statement's WHERE clause; or = TRUE for
\* clause.Or(<single expression>)
GExpr(op, field, args) == [op |-> op, field |-> field, args |-> args]
GAnd(e) == [or |-> FALSE, e |-> e]
GOr(e) == [or |-> TRUE, e |-> e]

\* SQL evaluation of one expression on a row (a comparison with NULL is
\* unknown, which selects nothing)
SqlLeaf(row, e) ==
    LET val == row[e.field]
    IN CASE e.op = "eq" -> val = e.args[1]
         [] e.op = "in" -> val \in Elems(e.args)
         [] e.op = "notin" -> val # Null /\ val \notin Elems(e.args)
         [] e.op = "between" -> val >= e.args[1] /\ val <= e.args[2]
         [] e.op = "isnull" -> val = Null
         [] e.op = "notnull" -> val # Null
         [] OTHER -> FALSE

\* clause.Where.Build: the first expression that is not a single Or
\* condition is moved to the front
FirstPlain(ws) ==
    IF \E i \in 1..Len(ws) : ~ws[i].or
    THEN CHOOSE i \in 1..Len(ws) : ~ws[i].or /\ \A j \in 1..(i - 1) : ws[j].or
    ELSE 0

WhereBuildOrder(ws) ==
    LET i == FirstPlain(ws)
    IN IF i > 1 THEN [ws EXCEPT ![1] = ws[i], ![i] = ws[1]] ELSE ws

\* the built condition: expressions joined by AND, a single Or condition
\* joined by OR; AND binds tighter than OR
RECURSIVE SqlJoin(_, _, _, _)
SqlJoin(row, ws, i, cur) ==
    IF i > Len(ws) THEN cur
    ELSE IF ws[i].or THEN cur \/ SqlJoin(row, ws, i + 1, SqlLeaf(row, ws[i].e))
    ELSE SqlJoin(row, ws, i + 1, cur /\ SqlLeaf(row, ws[i].e))

SqlWhere(row, ws) ==
    LET b == WhereBuildOrder(ws)
    IN IF Len(b) = 0 THEN TRUE ELSE SqlJoin(row, b, 2, SqlLeaf(row, b[1].e))

GormMatching(st, ws) == {k \in Present(st) : SqlWhere(st[k], ws)}

\* GormQuery.db: the statement a builder accumulates
NewGormQuery(wheres) == [wheres |-> wheres, orders |-> <<>>, preloads |-> <<>>, limit |-> 0, offset |-> 0]

GormRepository_Where(field, value) == NewGormQuery(<<GAnd(GExpr("eq", field, <<value>>))>>)
GormRepository_WhereIn(field, values) == NewGormQuery(<<GAnd(GExpr("in", field, values))>>)
GormRepository_WhereNotIn(field, values) == NewGormQuery(<<GAnd(GExpr("notin", field, values))>>)
GormRepository_WhereBetween(field, lo, hi) == NewGormQuery(<<GAnd(GExpr("between", field, <<lo, hi>>))>>)
GormRepository_WhereNull(field) == NewGormQuery(<<GAnd(GExpr("isnull", field, <<>>))>>)
GormRepository_WhereNotNull(field) == NewGormQuery(<<GAnd(GExpr("notnull", field, <<>>))>>)
GormRepository_Limit(limit) == [NewGormQuery(<<>>) EXCEPT !.limit = limit]
GormRepository_Offset(offset) == [NewGormQuery(<<>>) EXCEPT !.offset = offset]

GormQuery_Where(q, field, value) == [q EXCEPT !.wheres = Append(@, GAnd(GExpr("eq", field, <<value>>)))]
GormQuery_WhereIn(q, field, values) == [q EXCEPT !.wheres = Append(@, GAnd(GExpr("in", field, values)))]
GormQuery_WhereNotIn(q, field, values) == [q EXCEPT !.wheres = Append(@, GAnd(GExpr("notin", field, values)))]
GormQuery_WhereBetween(q, field, lo, hi) == [q EXCEPT !.wheres = Append(@, GAnd(GExpr("between", field, <<lo, hi>>)))]
GormQuery_WhereNull(q, field) == [q EXCEPT !.wheres = Append(@, GAnd(GExpr("isnull", field, <<>>)))]
GormQuery_WhereNotNull(q, field) == [q EXCEPT !.wheres = Append(@, GAnd(GExpr("notnull", field, <<>>)))]
GormQuery_OrWhere(q, field, value) == [q EXCEPT !.wheres = Append(@, GOr(GExpr("eq", field, <<value>>)))]
GormQuery_Limit(q, limit) == [q EXCEPT !.limit = limit]
GormQuery_Offset(q, offset) == [q EXCEPT !.offset = offset]

\* Find: SELECT ... WHERE ... ORDER BY ... LIMIT ... OFFSET ...; the
\* direction keyword of an ORDER BY term is read without regard to case
SqlDirection(direction) == IF direction \in {"DESC", "desc"} THEN -1 ELSE 1
GormSortTerms(orders) ==
    [i \in 1..Len(orders) |-> [key |-> orders[i][1], value |-> SqlDirection(orders[i][2])]]
GormQuery_Find(q, st) ==
    SkipLimit(Ordered(GormMatching(st, q.wheres), st, GormSortTerms(q.orders)), q.offset, q.limit)

\* Count: SELECT count(*) ... with the statement's clauses; the single
\* count row is skipped by a positive OFFSET
GormQuery_Count(q, st) ==
    IF q.offset > 0 THEN 0 ELSE Cardinality(GormMatching(st, q.wheres))

(* ------------------- repository: single-record reads ------------------- *)
NoOp == [name |-> "none", id |-> IntId(0), fault |-> FALSE, err |-> NilErr, key |-> 0]
Outcome(err, key) == [err |-> err, key |-> key]

\* what db.First(&result, id) can answer: an int or a numeric string selects
\* by primary key, the empty string adds no condition, any other string is
\* sent to the database as a raw condition
GormFirst(st, id, fault) ==
    LET byKey(n) == IF n \in Present(st) THEN {Outcome(NilErr, n)} ELSE {Outcome(GormSentinel, 0)}
        firstRow == IF Present(st) = {} THEN {Outcome(GormSentinel, 0)}
                    ELSE {Outcome(NilErr, CHOOSE k \in Present(st) : \A j \in Present(st) : k <= j)}
    IN IF fault THEN {Outcome(DriverError, 0)}
       ELSE IF id.kind = "int" THEN byKey(id.n)
       ELSE IF Atoi(id.s).ok THEN byKey(Atoi(id.s).n)
       ELSE IF id.s = <<>> THEN firstRow
       ELSE {Outcome(DriverError, 0), Outcome(GormSentinel, 0)} \cup {Outcome(NilErr, k) : k \in Present(st)}

GormFindError_Raw(err) == err
\* the error mapping of GormRepository.FindByID
GormFindError(err) == IF err = GormSentinel THEN ErrRecordNotFound ELSE err

GormRepository_FindByID(id, out) ==
    [name |-> "FindByID", id |-> id, fault |-> out.err = DriverError,
     err |-> GormFindError(out.err), key |-> IF out.err = NilErr THEN out.key ELSE 0]

\* toObjectID: a string is decoded from hex, an ObjectID is taken as it is,
\* any other type is an error
MongoRepository_toObjectID_AnyString(id) ==
    CASE id.kind = "str" -> [ok |-> TRUE, oid |-> IF ObjectIDFromHex(id.s).ok THEN ObjectIDFromHex(id.s).oid ELSE 0]
      [] id.kind = "oid" -> [ok |-> TRUE, oid |-> id.n]
      [] OTHER -> [ok |-> FALSE, oid |-> 0]
MongoRepository_toObjectID(id) ==
    CASE id.kind = "str" -> ObjectIDFromHex(id.s)
      [] id.kind = "oid" -> [ok |-> TRUE, oid |-> id.n]
      [] OTHER -> [ok |-> FALSE, oid |-> 0]

\* what collection.FindOne({_id: oid}) can answer
MongoFindOne(st, oid, fault) ==
    IF fault THEN Outcome(DriverError, 0)
    ELSE IF oid \in Present(st) THEN Outcome(NilErr, oid)
    ELSE Outcome(MongoSentinel, 0)

\* the error mapping of MongoRepository.FindByID
MongoFindError(err) == IF err = MongoSentinel THEN ErrRecordNotFound ELSE err

MongoRepository_FindByID(st, id, fault) ==
    LET conv == MongoRepository_toObjectID(id)
        out == MongoFindOne(st, conv.oid, fault)
    IN IF ~conv.ok
       THEN [name |-> "FindByID", id |-> id, fault |-> FALSE, err |-> ErrInvalidID, key |-> 0]
       ELSE [name |-> "FindByID", id |-> id, fault |-> fault,
             err |-> MongoFindError(out.err), key |-> IF out.err = NilErr THEN out.key ELSE 0]

(* ------------------- repository: atomic counters ----------------------- *)
MinInt == -(2 ^ (IntBits - 1))
MaxInt == (2 ^ (IntBits - 1)) - 1
\* Go's two's-complement int arithmetic
WrapInt(x) == ((x + 2 ^ (IntBits - 1)) % (2 ^ IntBits)) - 2 ^ (IntBits - 1)
NegInt(v) == WrapInt(0 - v)

Callers == 1..NumCallers
NoReq == [kind |-> "none", id |-> IntId(0), delta |-> 0]
NoCtr == [pc |-> [c \in Callers |-> "idle"], req |-> [c \in Callers |-> NoReq], log |-> <<>>]

GormIncExpr_Assign(cur, value) == value
\* UpdateColumn(field, gorm.Expr("field + ?", value)) and ("field - ?", value)
GormIncExpr(cur, value) == cur + value
GormDecExpr(cur, value) == cur - value
\* UpdateOne(..., {$inc: {field: value}})
MongoIncOp(cur, value) == cur + value
MongoDecrementValue_NoNeg(value) == value
\* Decrement on the document adapter: Increment(ctx, id, field, -value)
MongoDecrementValue(value) == NegInt(value)

\* the single store-side update: the counter of the row / document with the
\* given key, when there is one
SetCounter(st, key, new) ==
    IF key \in Present(st) THEN [st EXCEPT ![key].counter = new] ELSE st

GormRepository_Increment(st, id, value) ==
    LET key == IF id.kind = "int" THEN id.n ELSE Atoi(id.s).n
    IN SetCounter(st, key, IF key \in Present(st) THEN GormIncExpr(st[key].counter, value) ELSE 0)
GormRepository_Decrement(st, id, value) ==
    LET key == IF id.kind = "int" THEN id.n ELSE Atoi(id.s).n
    IN SetCounter(st, key, IF key \in Present(st) THEN GormDecExpr(st[key].counter, value) ELSE 0)
MongoRepository_Increment(st, id, value) ==
    LET key == MongoRepository_toObjectID(id).oid
    IN SetCounter(st, key, IF key \in Present(st) THEN MongoIncOp(st[key].counter, value) ELSE 0)
MongoRepository_Decrement(st, id, value) ==
    MongoRepository_Increment(st, id, MongoDecrementValue(value))

(* ------------------- repository: batch updates ------------------------- *)
NoBatch == [pc |-> "idle", ids |-> <<>>, data |-> <<>>, i |-> 0, tx |-> "none",
            work |-> <<>>, pre |-> <<>>, err |-> NilErr, undone |-> FALSE, ended |-> 0]
LengthError == "ids and data length mismatch"

\* Updates(&data): the struct's non-zero fields are written to the row
GormUpdates(row, data) ==
    [role |-> IF data.role = "" THEN row.role ELSE data.role,
     counter |-> IF data.counter = 0 THEN row.counter ELSE data.counter]
\* tx.Model(..).Where("id = ?", id).Updates(&data[i]) inside the transaction
GormUpdateRow(st, id, data) ==
    LET key == IF id.kind = "int" THEN id.n ELSE Atoi(id.s).n
    IN IF key \in Present(st) THEN [st EXCEPT ![key] = GormUpdates(st[key], data)] ELSE st
GormRollback_KeepsWork(committed, working) == working
\* tx.Rollback(): the store keeps the committed rows, the transaction's
\* working copy is dropped
GormRollback(committed, working) == committed
\* tx.Commit(): the working copy becomes the committed rows
GormCommit(committed, working) == working

MongoReplaceOne_Merge(st, oid, data) ==
    IF oid \in Present(st) THEN [st EXCEPT ![oid] = GormUpdates(st[oid], data)] ELSE st
\* ReplaceOne({_id: oid}, data): the matched document becomes data
MongoReplaceOne(st, oid, data) ==
    IF oid \in Present(st) THEN [st EXCEPT ![oid] = data] ELSE st

(* ------------------------- pagination executor ------------------------- *)
DefaultPerPage == 10

PaginationMeta(page, perPage, total, totalPages) ==
    [page |-> page, perPage |-> perPage, total |-> total, totalPages |-> totalPages,
     hasNext |-> page < totalPages, hasPrev |-> page > 1]
NoMetaValue == PaginationMeta(0, 0, 0, 0)

\* GormPaginatedResult.Execute: "Calculate pagination" and the meta it returns
GormNormPage(page) == IF page < 1 THEN 1 ELSE page
GormNormPerPage(perPage) == IF perPage < 1 THEN DefaultPerPage ELSE perPage
GormTotalPages_Floor(total, perPage) == total \div perPage
GormTotalPages(total, perPage) ==
    IF total % perPage > 0 THEN (total \div perPage) + 1 ELSE total \div perPage
GormMeta(page, perPage, total) ==
    LET p == GormNormPage(page)
        pp == GormNormPerPage(perPage)
    IN PaginationMeta(p, pp, total, GormTotalPages(total, pp))

\* MongoPaginatedResult.Execute: the same computation, written again
MongoNormPage_None(page) == page
MongoNormPage(page) == IF page < 1 THEN 1 ELSE page
MongoNormPerPage(perPage) == IF perPage < 1 THEN DefaultPerPage ELSE perPage
MongoTotalPages(total, perPage) ==
    IF total % perPage > 0 THEN (total \div perPage) + 1 ELSE total \div perPage
MongoMeta(page, perPage, total) ==
    LET p == MongoNormPage(page)
        pp == MongoNormPerPage(perPage)
    IN PaginationMeta(p, pp, total, MongoTotalPages(total, pp))

\* utils.CalculatePaginationMeta
CalculatePaginationMeta(page, perPage, total) ==
    LET p == IF page < 1 THEN 1 ELSE page
        pp == IF perPage < 1 THEN DefaultPerPage ELSE perPage
        totalPages == IF total % pp > 0 THEN (total \div pp) + 1 ELSE total \div pp
    IN PaginationMeta(p, pp, total, totalPages)

NoMeta == [done |-> FALSE, page |-> 0, perPage |-> 0, total |-> 0,
           gorm |-> NoMetaValue, mongo |-> NoMetaValue, util |-> NoMetaValue]

\* MongoPaginatedResult / GormPaginatedResult struct, the position inside
\* Execute, and the queries Execute has sent to the store so far, each with
\* the struct's page and perPage at that moment
NoPage == [pc |-> "idle", page |-> 0, perPage |-> 0, total |-> 0, rows |-> <<>>,
           meta |-> NoMetaValue, err |-> NilErr, sent |-> <<>>, counted |-> <<>>, fetched |-> <<>>]
Sent(kind, page, perPage, limit, offset) ==
    [kind |-> kind, page |-> page, perPage |-> perPage, limit |-> limit, offset |-> offset]

\* the documents the fetch of Execute reads: p.query.Find(ctx) goes to the
\* collection as it is then, not as it was when the count was taken
MongoFetchView_Snapshot(counted, current) == counted
MongoFetchView(counted, current) == current

\* the objects the callers hold: repositories, the builders made from them,
\* the statements / query structs the builders point to, and the operations
\* sent to the store with the connection each one used
NoHeap == [repos |-> <<>>, builders |-> <<>>, objs |-> <<>>, sent |-> <<>>, panicked |-> FALSE]

(* --------------------- query scenarios: one builder -------------------- *)
nonQueryVars == <<last, ctr, batch, meta, pg, heap>>

Call(m, field, args) == [m |-> m, field |-> field, args |-> args]
NoRes == [hasRows |-> FALSE, rows |-> <<>>, hasCnt |-> FALSE, cnt |-> 0]

EqPreds == {<<"role", r>> : r \in Roles} \cup {<<"counter", 1>>}
InLists == {<<"admin", "moderator">>, <<"user">>}
Ranges == {<<1, 2>>}
LimitVals == {2}
OffsetVals == {1}

\* the stores of the query scenarios: records 1..n, one of each kind of role
QueryStores == {[k \in 1..n |-> SeedRec(k)] : n \in 0..MaxId}

InitQuery ==
    /\ adapter \in Adapters
    /\ store \in QueryStores
    /\ mq = NewMongoQuery(EmptyFilter)
    /\ gq = NewGormQuery(<<>>)
    /\ qtrace = <<>>
    /\ qres = NoRes
    /\ last = NoOp
    /\ ctr = NoCtr
    /\ batch = NoBatch
    /\ meta = NoMeta
    /\ pg = NoPage
    /\ heap = NoHeap

\* a query-entry method of the repository: a fresh builder
Entry(call, newM, newG) ==
    /\ mq' = IF adapter = "mongo" THEN newM ELSE mq
    /\ gq' = IF adapter = "gorm" THEN newG ELSE gq
    /\ qtrace' = <<call>>
    /\ qres' = NoRes
    /\ UNCHANGED <<adapter, store>>
    /\ UNCHANGED nonQueryVars

\* a chained method of the builder: mutates it in place
Chain(call, newM, newG) ==
    /\ mq' = IF adapter = "mongo" THEN newM ELSE mq
    /\ gq' = IF adapter = "gorm" THEN newG ELSE gq
    /\ qtrace' = Append(qtrace, call)
    /\ qres' = NoRes
    /\ UNCHANGED <<adapter, store>>
    /\ UNCHANGED nonQueryVars

RepoWhere == \E p \in EqPreds :
    /\ qtrace = <<>>
    /\ Entry(Call("Where", p[1], <<p[2]>>), MongoRepository_Where(p[1], p[2]), GormRepository_Where(p[1], p[2]))
RepoWhereIn == \E vs \in InLists :
    /\ qtrace = <<>>
    /\ Entry(Call("WhereIn", "role", vs), MongoRepository_WhereIn("role", vs), GormRepository_WhereIn("role", vs))
RepoWhereNotIn == \E vs \in InLists :
    /\ qtrace = <<>>
    /\ Entry(Call("WhereNotIn", "role", vs), MongoRepository_WhereNotIn("role", vs), GormRepository_WhereNotIn("role", vs))
RepoWhereBetween == \E r \in Ranges :
    /\ qtrace = <<>>
    /\ Entry(Call("WhereBetween", "counter", r), MongoRepository_WhereBetween("counter", r[1], r[2]),
          GormRepository_WhereBetween("counter", r[1], r[2]))
RepoWhereNull ==
    /\ qtrace = <<>>
    /\ Entry(Call("WhereNull", "role", <<>>), MongoRepository_WhereNull("role"), GormRepository_WhereNull("role"))
RepoWhereNotNull ==
    /\ qtrace = <<>>
    /\ Entry(Call("WhereNotNull", "role", <<>>), MongoRepository_WhereNotNull("role"), GormRepository_WhereNotNull("role"))
RepoLimit == \E n \in LimitVals :
    /\ qtrace = <<>>
    /\ Entry(Call("Limit", "", <<n>>), MongoRepository_Limit(n), GormRepository_Limit(n))
RepoOffset == \E n \in OffsetVals :
    /\ qtrace = <<>>
    /\ Entry(Call("Offset", "", <<n>>), MongoRepository_Offset(n), GormRepository_Offset(n))

QWhere == \E p \in EqPreds :
    /\ qtrace # <<>> /\ Len(qtrace) <= MaxChain
    /\ Chain(Call("Where", p[1], <<p[2]>>), MongoQuery_Where(mq, p[1], p[2]), GormQuery_Where(gq, p[1], p[2]))
QWhereIn == \E vs \in InLists :
    /\ qtrace # <<>> /\ Len(qtrace) <= MaxChain
    /\ Chain(Call("WhereIn", "role", vs), MongoQuery_WhereIn(mq, "role", vs), GormQuery_WhereIn(gq, "role", vs))
QWhereNotIn == \E vs \in InLists :
    /\ qtrace # <<>> /\ Len(qtrace) <= MaxChain
    /\ Chain(Call("WhereNotIn", "role", vs), MongoQuery_WhereNotIn(mq, "role", vs), GormQuery_WhereNotIn(gq, "role", vs))
QWhereBetween == \E r \in Ranges :
    /\ qtrace # <<>> /\ Len(qtrace) <= MaxChain
    /\ Chain(Call("WhereBetween", "counter", r), MongoQuery_WhereBetween(mq, "counter", r[1], r[2]),
          GormQuery_WhereBetween(gq, "counter", r[1], r[2]))
QWhereNull ==
    /\ qtrace # <<>> /\ Len(qtrace) <= MaxChain
    /\ Chain(Call("WhereNull", "role", <<>>), MongoQuery_WhereNull(mq, "role"), GormQuery_WhereNull(gq, "role"))
QWhereNotNull ==
    /\ qtrace # <<>> /\ Len(qtrace) <= MaxChain
    /\ Chain(Call("WhereNotNull", "role", <<>>), MongoQuery_WhereNotNull(mq, "role"), GormQuery_WhereNotNull(gq, "role"))
QOrWhere == \E p \in EqPreds :
    /\ qtrace # <<>> /\ Len(qtrace) <= MaxChain
    /\ Chain(Call("OrWhere", p[1], <<p[2]>>), MongoQuery_OrWhere(mq, p[1], p[2]), GormQuery_OrWhere(gq, p[1], p[2]))
QLimit == \E n \in LimitVals :
    /\ qtrace # <<>> /\ Len(qtrace) <= MaxChain
    /\ Chain(Call("Limit", "", <<n>>), MongoQuery_Limit(mq, n), GormQuery_Limit(gq, n))
QOffset == \E n \in OffsetVals :
    /\ qtrace # <<>> /\ Len(qtrace) <= MaxChain
    /\ Chain(Call("Offset", "", <<n>>), MongoQuery_Offset(mq, n), GormQuery_Offset(gq, n))

\* terminal Find on the builder
QFind ==
    /\ qtrace # <<>>
    /\ ~qres.hasRows
    /\ qres' = [qres EXCEPT !.hasRows = TRUE,
                            !.rows = IF adapter = "mongo" THEN MongoQuery_Find(mq, store)
                                     ELSE GormQuery_Find(gq, store)]
    /\ UNCHANGED <<adapter, store, mq, gq, qtrace>>
    /\ UNCHANGED nonQueryVars

\* terminal Count on the builder
QCount ==
    /\ qtrace # <<>>
    /\ ~qres.hasCnt
    /\ qres' = [qres EXCEPT !.hasCnt = TRUE,
                            !.cnt = IF adapter = "mongo" THEN MongoQuery_Count(mq, store)
                                    ELSE GormQuery_Count(gq, store)]
    /\ UNCHANGED <<adapter, store, mq, gq, qtrace>>
    /\ UNCHANGED nonQueryVars

NextQuery ==
    \/ RepoWhere \/ RepoWhereIn \/ RepoWhereNotIn \/ RepoWhereBetween
    \/ RepoWhereNull \/ RepoWhereNotNull \/ RepoLimit \/ RepoOffset
    \/ QWhere \/ QWhereIn \/ QWhereNotIn \/ QWhereBetween \/ QWhereNull \/ QWhereNotNull
    \/ QOrWhere \/ QLimit \/ QOffset
    \/ QFind \/ QCount

SpecQuery == InitQuery /\ [][NextQuery]_vars

\* C1: on both adapters Where("role","admin").OrWhere("role","moderator").Find()
\* returns exactly the records whose role is admin or moderator
IsCall(c, m, field, args) == c.m = m /\ c.field = field /\ c.args = args
UnionChain ==
    /\ Len(qtrace) = 2
    /\ IsCall(qtrace[1], "Where", "role", <<"admin">>)
    /\ IsCall(qtrace[2], "OrWhere", "role", <<"moderator">>)
C1_OrWhereUnion ==
    (UnionChain /\ qres.hasRows) =>
        Elems(qres.rows) = {k \in Present(store) : store[k].role \in {"admin", "moderator"}}

\* C8: for a builder made of query-entry and chained Where* calls only,
\* Count returns the number of records Find returns
WhereCalls == {"Where", "WhereIn", "WhereNotIn", "WhereBetween", "WhereNull", "WhereNotNull", "OrWhere"}
FilterOnly == \A i \in 1..Len(qtrace) : qtrace[i].m \in WhereCalls
C8_CountEqualsFind ==
    (FilterOnly /\ qres.hasRows /\ qres.hasCnt) => qres.cnt = Len(qres.rows)
C8_Witness ==
    /\ FilterOnly /\ Len(qtrace) >= 2 /\ qres.hasRows /\ qres.hasCnt
    /\ qres.cnt = Len(qres.rows) /\ qres.cnt > 0 /\ qres.cnt < Cardinality(Present(store))

(* ------------------ repository scenarios: single records --------------- *)
nonRepoVars == <<mq, gq, qtrace, qres, ctr, batch, meta, pg, heap>>

IdleQuery ==
    /\ mq = NewMongoQuery(EmptyFilter)
    /\ gq = NewGormQuery(<<>>)
    /\ qtrace = <<>>
    /\ qres = NoRes

\* the stores of the repository scenarios: any subset of the keys is present
RepoStores == {[k \in S |-> SeedRec(k)] : S \in SUBSET Keys}

InitRepo ==
    /\ adapter \in Adapters
    /\ store \in RepoStores
    /\ last = NoOp
    /\ IdleQuery
    /\ ctr = NoCtr
    /\ batch = NoBatch
    /\ meta = NoMeta
    /\ pg = NoPage
    /\ heap = NoHeap

GormFindByID ==
    /\ adapter = "gorm"
    /\ \E id \in RelationalIds, fault \in BOOLEAN :
        \E out \in GormFirst(store, id, fault) : last' = GormRepository_FindByID(id, out)
    /\ UNCHANGED <<adapter, store>>
    /\ UNCHANGED nonRepoVars

MongoFindByID ==
    /\ adapter = "mongo"
    /\ \E id \in DocumentIds, fault \in BOOLEAN :
        last' = MongoRepository_FindByID(store, id, fault)
    /\ UNCHANGED <<adapter, store>>
    /\ UNCHANGED nonRepoVars

NextRepo == GormFindByID \/ MongoFindByID

SpecRepo == InitRepo /\ [][NextRepo]_vars

\* identifiers as the contract describes them
HexDigits == {"0", "1"}
DecDigits == {"0", "1"}
AllIn(s, D) == \A i \in 1..Len(s) : s[i] \in D
WellFormed(a, id) ==
    IF a = "gorm"
    THEN id.kind = "int" \/ (id.kind = "str" /\ Len(id.s) > 0 /\ AllIn(id.s, DecDigits))
    ELSE id.kind = "oid" \/ (id.kind = "str" /\ Len(id.s) = OidHexLen /\ AllIn(id.s, HexDigits))
\* the native identifier a well-formed identifier names
Named(a, id) ==
    IF id.kind # "str" THEN id.n
    ELSE DigitsValue(id.s, IF a = "gorm" THEN 10 ELSE 16)

\* C4: on both adapters FindByID with a syntactically invalid identifier
\* returns InvalidID, never a generic or driver error
C4_InvalidIdIsInvalidID ==
    (last.name = "FindByID" /\ ~WellFormed(adapter, last.id)) => last.err = ErrInvalidID

\* C5: on both adapters FindByID with a well-formed identifier that names no
\* stored record returns RecordNotFound and no record, whenever the store
\* answers the lookup
C5_MissingIsRecordNotFound ==
    (last.name = "FindByID" /\ WellFormed(adapter, last.id) /\ ~last.fault
        /\ Named(adapter, last.id) \notin Present(store))
    => (last.err = ErrRecordNotFound /\ last.key = 0)
C5_WitnessGorm ==
    /\ adapter = "gorm" /\ last.name = "FindByID" /\ last.id.kind = "str" /\ WellFormed(adapter, last.id)
    /\ Named(adapter, last.id) \notin Present(store) /\ Present(store) # {}
    /\ last.err = ErrRecordNotFound
C5_WitnessMongo ==
    /\ adapter = "mongo" /\ last.name = "FindByID" /\ last.id.kind = "str" /\ WellFormed(adapter, last.id)
    /\ Named(adapter, last.id) \notin Present(store) /\ Present(store) # {}
    /\ last.err = ErrRecordNotFound

(* -------------------- counter scenarios: concurrent callers ------------ *)
nonCtrVars == <<mq, gq, qtrace, qres, last, batch, meta, pg, heap>>

Deltas == {MinInt, -1, 2}
CounterIds(a) ==
    IF a = "gorm" THEN {IntId(1), IntId(2)}
    ELSE {StrId(<<"0", "1">>), OidId(2), StrId(<<"g">>)}

InitCounter ==
    /\ adapter \in Adapters
    /\ store = [k \in 1..2 |-> SeedRec(k)]
    /\ ctr = NoCtr
    /\ batch = NoBatch
    /\ meta = NoMeta
    /\ pg = NoPage
    /\ heap = NoHeap
    /\ last = NoOp
    /\ IdleQuery

LogEntry(c, req, err, pre) ==
    [caller |-> c, kind |-> req.kind, id |-> req.id, delta |-> req.delta, err |-> err, pre |-> pre]

\* a caller enters Increment / Decrement; the document adapter converts the
\* identifier first and returns ErrInvalidID without a store call
Enter(c, req) ==
    IF adapter = "mongo" /\ ~MongoRepository_toObjectID(req.id).ok
    THEN /\ ctr' = [ctr EXCEPT !.pc[c] = "done", !.req[c] = req,
                               !.log = Append(@, LogEntry(c, req, ErrInvalidID, store))]
    ELSE /\ ctr' = [ctr EXCEPT !.pc[c] = "sent", !.req[c] = req]

CallIncrement(c) == \E id \in CounterIds(adapter), d \in Deltas :
    /\ ctr.pc[c] = "idle"
    /\ Enter(c, [kind |-> "inc", id |-> id, delta |-> d])
    /\ UNCHANGED <<adapter, store>>
    /\ UNCHANGED nonCtrVars

CallDecrement(c) == \E id \in CounterIds(adapter), d \in Deltas :
    /\ ctr.pc[c] = "idle"
    /\ Enter(c, [kind |-> "dec", id |-> id, delta |-> d])
    /\ UNCHANGED <<adapter, store>>
    /\ UNCHANGED nonCtrVars

Effect(a, st, req) ==
    CASE a = "gorm" /\ req.kind = "inc" -> GormRepository_Increment(st, req.id, req.delta)
      [] a = "gorm" /\ req.kind = "dec" -> GormRepository_Decrement(st, req.id, req.delta)
      [] a = "mongo" /\ req.kind = "inc" -> MongoRepository_Increment(st, req.id, req.delta)
      [] a = "mongo" /\ req.kind = "dec" -> MongoRepository_Decrement(st, req.id, req.delta)

\* the store executes the caller's one update statement atomically, or
\* fails it and changes nothing
StoreApply(c) == \E fault \in BOOLEAN :
    /\ ctr.pc[c] = "sent"
    /\ store' = IF fault THEN store ELSE Effect(adapter, store, ctr.req[c])
    /\ ctr' = [ctr EXCEPT !.pc[c] = "done",
                          !.log = Append(@, LogEntry(c, ctr.req[c], IF fault THEN DriverError ELSE NilErr, store))]
    /\ UNCHANGED adapter
    /\ UNCHANGED nonCtrVars

NextCounter == \E c \in Callers : CallIncrement(c) \/ CallDecrement(c) \/ StoreApply(c)

SpecCounter == InitCounter /\ [][NextCounter]_vars

\* the store after the i-th logged call
PostOf(i) == IF i = Len(ctr.log) THEN store ELSE ctr.log[i + 1].pre
Applied(e) == e.err = NilErr
SameTarget(e1, e2) == Named(adapter, e1.id) = Named(adapter, e2.id) /\ e1.delta = e2.delta

\* Decrement(id, f, d) acts on the store as Increment(id, f, -d) does
DecIsNegInc(i) ==
    LET e == ctr.log[i]
    IN (e.kind = "dec" /\ Applied(e)) =>
        PostOf(i) = Effect(adapter, e.pre, [kind |-> "inc", id |-> e.id, delta |-> NegInt(e.delta)])
\* Increment(id, f, d) directly followed by Decrement(id, f, d) restores the store
RoundTrip(i) ==
    LET e1 == ctr.log[i]
        e2 == ctr.log[i + 1]
    IN (e1.kind = "inc" /\ e2.kind = "dec" /\ Applied(e1) /\ Applied(e2) /\ SameTarget(e1, e2)) =>
        PostOf(i + 1) = e1.pre
\* a call changes at most the counter of the record its identifier names
OnlyCounterOfId(i) ==
    LET e == ctr.log[i]
        k == Named(adapter, e.id)
    IN /\ Present(PostOf(i)) = Present(e.pre)
       /\ \A j \in Present(e.pre) :
            /\ PostOf(i)[j].role = e.pre[j].role
            /\ (j # k \/ ~WellFormed(adapter, e.id)) => PostOf(i)[j] = e.pre[j]

\* C6 as stated: for every delta d, Decrement(id, f, d) acts as
\* Increment(id, f, -d), and Increment then Decrement of the same d leaves the
\* field at its original value and changes nothing else
C6_AsStated ==
    /\ \A i \in 1..Len(ctr.log) : DecIsNegInc(i) /\ OnlyCounterOfId(i)
    /\ \A i \in 1..(Len(ctr.log) - 1) : RoundTrip(i)

\* C6 away from the overflow: the same holds for every delta other than the
\* smallest int, the one value whose negation -value wraps to itself
C6_ExceptMinInt ==
    /\ \A i \in 1..Len(ctr.log) :
        /\ ctr.log[i].delta # MinInt => DecIsNegInc(i)
        /\ OnlyCounterOfId(i)
    /\ \A i \in 1..(Len(ctr.log) - 1) : ctr.log[i].delta # MinInt => RoundTrip(i)
C6_Witness ==
    /\ Len(ctr.log) >= 2
    /\ ctr.log[1].kind = "inc" /\ ctr.log[2].kind = "dec"
    /\ Applied(ctr.log[1]) /\ Applied(ctr.log[2]) /\ SameTarget(ctr.log[1], ctr.log[2])
    /\ ctr.log[1].delta = 2
    /\ ctr.log[2].pre # ctr.log[1].pre
    /\ PostOf(2) = ctr.log[1].pre

\* C7: concurrent Increments lose no update: whatever the interleaving, a
\* counter holds its initial value plus the deltas of the Increments applied
\* to it
RECURSIVE SumApplied(_, _)
SumApplied(key, n) ==
    IF n = 0 THEN 0
    ELSE SumApplied(key, n - 1)
         + (IF Applied(ctr.log[n]) /\ Named(adapter, ctr.log[n].id) = key THEN ctr.log[n].delta ELSE 0)
OnlyIncrements == \A i \in 1..Len(ctr.log) : ctr.log[i].kind = "inc"
InitialStore == IF Len(ctr.log) = 0 THEN store ELSE ctr.log[1].pre
C7_IncrementsSum ==
    OnlyIncrements =>
        \A k \in Present(store) :
            store[k].counter = InitialStore[k].counter + SumApplied(k, Len(ctr.log))
C7_Witness ==
    /\ OnlyIncrements
    /\ \A c \in Callers : ctr.pc[c] = "done"
    /\ \A i \in 1..Len(ctr.log) : Applied(ctr.log[i]) /\ Named(adapter, ctr.log[i].id) = 1
    /\ Len(ctr.log) = NumCallers
    /\ \E i, j \in 1..Len(ctr.log) : ctr.log[i].delta # ctr.log[j].delta
    /\ store[1].counter = InitialStore[1].counter + SumApplied(1, Len(ctr.log))

(* ----------------------- batch scenarios: UpdateBatch ------------------ *)
nonBatchVars == <<mq, gq, qtrace, qres, last, ctr, meta, pg, heap>>

BatchData == {Rec("user", 7), Rec("", 9)}
BatchIds(a) ==
    IF a = "gorm" THEN {IntId(1), IntId(2), IntId(3)}
    ELSE {OidId(1), OidId(2), OidId(3), StrId(<<"0", "1">>), StrId(<<"g">>)}

RECURSIVE SeqsUpTo(_, _)
SeqsUpTo(S, n) ==
    IF n = 0 THEN {<<>>}
    ELSE SeqsUpTo(S, n - 1) \cup {Append(t, x) : t \in {u \in SeqsUpTo(S, n - 1) : Len(u) = n - 1}, x \in S}

InitBatch ==
    /\ adapter \in Adapters
    /\ store = [k \in 1..3 |-> SeedRec(k)]
    /\ batch = NoBatch
    /\ meta = NoMeta
    /\ pg = NoPage
    /\ heap = NoHeap
    /\ ctr = NoCtr
    /\ last = NoOp
    /\ IdleQuery

\* UpdateBatch is entered: the length check, and on the relational adapter
\* Begin()
UpdateBatchEntered_BeginFirst(a, st, ids, data) ==
    LET begun == [NoBatch EXCEPT !.ids = ids, !.data = data, !.pre = st,
                                 !.tx = IF a = "gorm" THEN "open" ELSE "none"]
    IN IF Len(ids) # Len(data) THEN [begun EXCEPT !.pc = "done", !.err = LengthError]
       ELSE [begun EXCEPT !.pc = "loop", !.i = 1, !.work = IF a = "gorm" THEN st ELSE <<>>]
UpdateBatchEntered(a, st, ids, data) ==
    IF Len(ids) # Len(data)
    THEN [NoBatch EXCEPT !.pc = "done", !.ids = ids, !.data = data, !.pre = st, !.err = LengthError]
    ELSE [NoBatch EXCEPT !.pc = "loop", !.ids = ids, !.data = data, !.pre = st, !.i = 1,
                         !.tx = IF a = "gorm" THEN "open" ELSE "none",
                         !.work = IF a = "gorm" THEN st ELSE <<>>]
CallUpdateBatch ==
    /\ batch.pc = "idle"
    /\ \E ids \in SeqsUpTo(BatchIds(adapter), MaxBatch), data \in SeqsUpTo(BatchData, MaxBatch) :
        batch' = UpdateBatchEntered(adapter, store, ids, data)
    /\ UNCHANGED <<adapter, store>>
    /\ UNCHANGED nonBatchVars

\* a per-id update failed: tx.Rollback(), return err
GormUpdateFailed_LeftOpen(b, committed) ==
    [b EXCEPT !.pc = "done", !.err = DriverError, !.work = <<>>, !.undone = (b.work # committed)]
GormUpdateFailed(b, committed) ==
    [b EXCEPT !.pc = "done", !.tx = "rolledback", !.ended = @ + 1, !.err = DriverError,
              !.work = <<>>, !.undone = (b.work # committed)]

\* one iteration of the relational loop: the update runs in the transaction;
\* when it fails the transaction is rolled back and the error returned
GormBatchStep == \E fault \in BOOLEAN :
    /\ adapter = "gorm" /\ batch.pc = "loop" /\ batch.i <= Len(batch.ids)
    /\ IF fault
       THEN /\ store' = GormRollback(store, batch.work)
            /\ batch' = GormUpdateFailed(batch, store)
       ELSE /\ store' = store
            /\ batch' = [batch EXCEPT !.i = @ + 1,
                                      !.work = GormUpdateRow(@, batch.ids[batch.i], batch.data[batch.i])]
    /\ UNCHANGED adapter
    /\ UNCHANGED nonBatchVars

\* after the loop: return tx.Commit().Error
GormBatchCommit == \E fault \in BOOLEAN :
    /\ adapter = "gorm" /\ batch.pc = "loop" /\ batch.i > Len(batch.ids)
    /\ store' = IF fault THEN store ELSE GormCommit(store, batch.work)
    /\ batch' = [batch EXCEPT !.pc = "done", !.tx = IF fault THEN "failed" ELSE "committed",
                              !.ended = @ + 1,
                              !.err = IF fault THEN DriverError ELSE NilErr, !.work = <<>>]
    /\ UNCHANGED adapter
    /\ UNCHANGED nonBatchVars

\* one iteration of the document loop: convert the id, ReplaceOne; either
\* failure returns at once
MongoBatchStep == \E fault \in BOOLEAN :
    /\ adapter = "mongo" /\ batch.pc = "loop" /\ batch.i <= Len(batch.ids)
    /\ LET conv == MongoRepository_toObjectID(batch.ids[batch.i])
       IN IF ~conv.ok
          THEN /\ store' = store
               /\ batch' = [batch EXCEPT !.pc = "done", !.err = ErrInvalidID]
          ELSE IF fault
          THEN /\ store' = store
               /\ batch' = [batch EXCEPT !.pc = "done", !.err = DriverError]
          ELSE /\ store' = MongoReplaceOne(store, conv.oid, batch.data[batch.i])
               /\ batch' = [batch EXCEPT !.i = @ + 1]
    /\ UNCHANGED adapter
    /\ UNCHANGED nonBatchVars

\* after the loop: return nil
MongoBatchReturn ==
    /\ adapter = "mongo" /\ batch.pc = "loop" /\ batch.i > Len(batch.ids)
    /\ batch' = [batch EXCEPT !.pc = "done", !.err = NilErr]
    /\ UNCHANGED <<adapter, store>>
    /\ UNCHANGED nonBatchVars

NextBatch == CallUpdateBatch \/ GormBatchStep \/ GormBatchCommit \/ MongoBatchStep \/ MongoBatchReturn

SpecBatch == InitBatch /\ [][NextBatch]_vars

\* C2: relational UpdateBatch is all-or-nothing: when it returns an error,
\* no record of the store has been changed
C2_GormBatchAllOrNothing ==
    (adapter = "gorm" /\ batch.pc = "done" /\ batch.err # NilErr) => store = batch.pre
C2_Witness ==
    /\ adapter = "gorm" /\ batch.pc = "done" /\ batch.err = DriverError
    /\ Len(batch.ids) = 3 /\ batch.i = 2 /\ batch.tx = "rolledback" /\ batch.undone
    /\ store = batch.pre

\* C3: document UpdateBatch processes the ids in list order without a
\* transaction: when the k-th id fails the error is returned, the updates of
\* ids 1..k-1 stay in the store and nothing else has changed
LastBefore(key, k) ==
    LET js == {j \in 1..(k - 1) : Named(adapter, batch.ids[j]) = key}
    IN IF js = {} THEN 0 ELSE CHOOSE j \in js : \A m \in js : m <= j
PrefixApplied(k) ==
    /\ Present(store) = Present(batch.pre)
    /\ \A key \in Present(store) :
        store[key] = IF LastBefore(key, k) = 0 THEN batch.pre[key] ELSE batch.data[LastBefore(key, k)]
C3_MongoBatchPrefixPersists ==
    (adapter = "mongo" /\ batch.pc = "done" /\ batch.err \in {ErrInvalidID, DriverError}) =>
        PrefixApplied(batch.i)
C3_Witness ==
    /\ adapter = "mongo" /\ batch.pc = "done" /\ batch.err = DriverError
    /\ Len(batch.ids) = 3 /\ batch.i = 2
    /\ store # batch.pre
    /\ store[Named(adapter, batch.ids[1])] = batch.data[1]
    /\ PrefixApplied(2)

\* C27: the transaction relational UpdateBatch begins is ended exactly
\* once on every return path: rolled back when a per-id update failed,
\* committed otherwise; it is open while the loop runs and never open, nor
\* both committed and rolled back, when the call has returned
C27_EndedExactlyOnce ==
    adapter = "gorm" =>
        /\ batch.pc = "loop" => (batch.tx = "open" /\ batch.ended = 0)
        /\ (batch.pc = "done" /\ batch.err # LengthError) =>
            /\ batch.ended = 1
            /\ batch.tx = (IF batch.i <= Len(batch.ids) THEN "rolledback"
                           ELSE IF batch.err = NilErr THEN "committed" ELSE "failed")
C27_Witness ==
    /\ adapter = "gorm" /\ batch.pc = "done" /\ batch.tx = "rolledback" /\ batch.ended = 1
    /\ Len(batch.ids) = 3 /\ batch.i = 3 /\ batch.undone
C27_WitnessCommit ==
    /\ adapter = "gorm" /\ batch.pc = "done" /\ batch.tx = "committed" /\ batch.ended = 1
    /\ Len(batch.ids) = 3 /\ store # batch.pre

\* C28: UpdateBatch with lists of different lengths returns an error before
\* it opens a transaction or issues an update; every record is as it was
C28_LengthMismatch ==
    (batch.pc = "done" /\ Len(batch.ids) # Len(batch.data)) =>
        /\ batch.err = LengthError
        /\ batch.tx = "none" /\ batch.ended = 0 /\ batch.i = 0 /\ batch.work = <<>>
        /\ store = batch.pre
C28_Witness ==
    /\ adapter = "gorm" /\ batch.pc = "done" /\ Len(batch.ids) = 2 /\ Len(batch.data) = 1
    /\ batch.err = LengthError /\ store = batch.pre
C28_WitnessMongo ==
    /\ adapter = "mongo" /\ batch.pc = "done" /\ Len(batch.ids) = 1 /\ Len(batch.data) = 3
    /\ batch.err = LengthError /\ store = batch.pre

(* ---------------------- page arithmetic scenarios ---------------------- *)
nonMetaVars == <<adapter, store, mq, gq, qtrace, qres, last, ctr, batch, pg, heap>>

InitMeta ==
    /\ adapter \in Adapters
    /\ store = <<>>
    /\ meta \in {[NoMeta EXCEPT !.page = p, !.perPage = pp, !.total = t] :
                    p \in -1..MaxPage, pp \in -1..21, t \in 0..MaxTotal}
    /\ pg = NoPage
    /\ heap = NoHeap
    /\ batch = NoBatch
    /\ ctr = NoCtr
    /\ last = NoOp
    /\ IdleQuery

\* the three computations of the meta on the same page, perPage and total
ComputeMeta ==
    /\ ~meta.done
    /\ meta' = [meta EXCEPT !.done = TRUE,
                            !.gorm = GormMeta(meta.page, meta.perPage, meta.total),
                            !.mongo = MongoMeta(meta.page, meta.perPage, meta.total),
                            !.util = CalculatePaginationMeta(meta.page, meta.perPage, meta.total)]
    /\ UNCHANGED nonMetaVars

NextMeta == ComputeMeta

SpecMeta == InitMeta /\ [][NextMeta]_vars

\* the contract of the meta for a normalized request
MetaContract(m, page, perPage, total) ==
    /\ m.page = (IF page < 1 THEN 1 ELSE page)
    /\ m.perPage = (IF perPage < 1 THEN 10 ELSE perPage)
    /\ m.total = total
    /\ m.totalPages >= 0
    /\ m.totalPages * m.perPage >= total
    /\ (m.totalPages - 1) * m.perPage < total \/ (total = 0 /\ m.totalPages = 0)
    /\ m.hasNext = (m.page < m.totalPages)
    /\ m.hasPrev = (m.page > 1)

\* C9: for every page, perPage and total >= 0 the meta of either adapter and
\* of CalculatePaginationMeta has totalPages = ceil(total / perPage),
\* hasNext = (page < totalPages), hasPrev = (page > 1) on the normalized
\* request; total 57 with perPage 20 gives 3 pages; the three agree
C9_MetaArithmetic ==
    meta.done =>
        /\ MetaContract(meta.gorm, meta.page, meta.perPage, meta.total)
        /\ MetaContract(meta.mongo, meta.page, meta.perPage, meta.total)
        /\ MetaContract(meta.util, meta.page, meta.perPage, meta.total)
        /\ (meta.total = 57 /\ meta.perPage = 20) => meta.gorm.totalPages = 3
        /\ meta.gorm = meta.mongo /\ meta.mongo = meta.util
C9_Witness ==
    /\ meta.done /\ meta.total = 57 /\ meta.perPage = 20 /\ meta.page = 3
    /\ meta.mongo.totalPages = 3 /\ ~meta.mongo.hasNext /\ meta.mongo.hasPrev
    /\ meta.gorm = meta.mongo

(* ------------------------ paginated query scenarios -------------------- *)
nonPageVars == <<adapter, store, mq, gq, qtrace, qres, last, ctr, batch, meta, heap>>

InitPage ==
    /\ adapter \in Adapters
    /\ store \in QueryStores
    /\ pg = NoPage
    /\ heap = NoHeap
    /\ meta = NoMeta
    /\ batch = NoBatch
    /\ ctr = NoCtr
    /\ last = NoOp
    /\ IdleQuery

\* Paginate(page, perPage) on the builder: the result object, nothing sent yet
Paginate == \E page \in -1..MaxPage, perPage \in -1..MaxPage :
    /\ qtrace # <<>> /\ pg.pc = "idle"
    /\ pg' = [NoPage EXCEPT !.pc = "created", !.page = page, !.perPage = perPage]
    /\ UNCHANGED nonPageVars

\* Execute, first part: the count query; an error of the store is returned
GormExecuteCount == \E fault \in BOOLEAN :
    /\ adapter = "gorm" /\ pg.pc = "created"
    /\ pg' = IF fault
             THEN [pg EXCEPT !.pc = "done", !.err = DriverError,
                             !.sent = Append(@, Sent("count", pg.page, pg.perPage, 0, 0))]
             ELSE [pg EXCEPT !.pc = "counted", !.total = GormQuery_Count(gq, store), !.counted = store,
                             !.sent = Append(@, Sent("count", pg.page, pg.perPage, 0, 0))]
    /\ UNCHANGED nonPageVars

MongoExecuteCount == \E fault \in BOOLEAN :
    /\ adapter = "mongo" /\ pg.pc = "created"
    /\ pg' = IF fault
             THEN [pg EXCEPT !.pc = "done", !.err = DriverError,
                             !.sent = Append(@, Sent("count", pg.page, pg.perPage, 0, 0))]
             ELSE [pg EXCEPT !.pc = "counted", !.total = MongoQuery_Count(mq, store), !.counted = store,
                             !.sent = Append(@, Sent("count", pg.page, pg.perPage, 0, 0))]
    /\ UNCHANGED nonPageVars

\* Execute, second part: page and perPage are normalized in the struct, the
\* offset computed, the page fetched with Limit(perPage).Offset(offset) and
\* the meta assembled
GormExecuteFetch == \E fault \in BOOLEAN :
    /\ adapter = "gorm" /\ pg.pc = "counted"
    /\ LET page == GormNormPage(pg.page)
           perPage == GormNormPerPage(pg.perPage)
           offset == (page - 1) * perPage
           query == Sent("find", page, perPage, perPage, offset)
       IN pg' = IF fault
                THEN [pg EXCEPT !.pc = "done", !.page = page, !.perPage = perPage, !.err = DriverError,
                                !.sent = Append(@, query)]
                ELSE [pg EXCEPT !.pc = "done", !.page = page, !.perPage = perPage,
                                !.rows = GormQuery_Find([gq EXCEPT !.limit = perPage, !.offset = offset], store),
                                !.fetched = store,
                                !.meta = GormMeta(pg.page, pg.perPage, pg.total),
                                !.sent = Append(@, query)]
    /\ UNCHANGED nonPageVars

\* the document adapter stores skip and limit in the builder and calls Find
MongoExecuteFetch == \E fault \in BOOLEAN :
    /\ adapter = "mongo" /\ pg.pc = "counted"
    /\ LET page == MongoNormPage(pg.page)
           perPage == MongoNormPerPage(pg.perPage)
           skip == (page - 1) * perPage
           query == Sent("find", page, perPage, perPage, skip)
           paged == [mq EXCEPT !.skip = skip, !.limit = perPage]
       IN /\ mq' = paged
          /\ pg' = IF fault
                   THEN [pg EXCEPT !.pc = "done", !.page = page, !.perPage = perPage, !.err = DriverError,
                                   !.sent = Append(@, query)]
                   ELSE [pg EXCEPT !.pc = "done", !.page = page, !.perPage = perPage,
                                   !.rows = MongoQuery_Find(paged, MongoFetchView(pg.counted, store)),
                                   !.fetched = store,
                                   !.meta = MongoMeta(pg.page, pg.perPage, pg.total),
                                   !.sent = Append(@, query)]
    /\ UNCHANGED <<adapter, store, gq, qtrace, qres, last, ctr, batch, meta, heap>>

NextPage ==
    \/ RepoWhere \/ RepoWhereNotNull \/ RepoOffset
    \/ Paginate
    \/ GormExecuteCount \/ MongoExecuteCount
    \/ GormExecuteFetch \/ MongoExecuteFetch

SpecPage == InitPage /\ [][NextPage]_vars

Normalized(q) == q.page >= 1 /\ q.perPage >= 1
NeverRejected == (pg.pc = "done" /\ pg.err # NilErr) => pg.err = DriverError
Requested(page, perPage) ==
    /\ pg.page = (IF page < 1 THEN 1 ELSE page)
    /\ pg.perPage = (IF perPage < 1 THEN 10 ELSE perPage)

GormIdKeys(st, id) ==
    IF id.kind = "int" THEN {id.n} \cap Present(st)
    ELSE IF Atoi(id.s).ok THEN {Atoi(id.s).n} \cap Present(st)
    ELSE {}

Remove(st, keys) == Restrict(st, Present(st) \ keys)
MaxKey(st) == IF Present(st) = {} THEN 0 ELSE CHOOSE k \in Present(st) : \A j \in Present(st) : j <= k

\* outcome of a write: the error returned, the store after it and, for
\* Create, the identifier left in the caller's struct and the key inserted
WriteResult(err, st, yields, key) == [err |-> err, store |-> st, yields |-> yields, key |-> key]

\* GormRepository.Update: Updates(data) on the rows with that id; an error of
\* the store is returned, zero affected rows are reported as not found
GormRepository_Update(st, id, data, fault) ==
    IF fault THEN WriteResult(DriverError, st, 0, 0)
    ELSE IF GormIdKeys(st, id) = {} THEN WriteResult(ErrRecordNotFound, st, 0, 0)
    ELSE WriteResult(NilErr, [k \in Present(st) |-> IF k \in GormIdKeys(st, id) THEN GormUpdates(st[k], data) ELSE st[k]], 0, 0)

\* Delete(&model, id) hands id to the ORM as an inline condition: a number
\* or a numeric string is compared with the primary key, any other string
\* is taken as the text of an SQL condition. Of those texts the model knows
\* one that is valid SQL, true of every row; the others are rejected by
\* the store
SqlTrue == <<"1", "=", "1">>
GormInlineCondition(st, id) ==
    IF id.kind = "int" \/ Atoi(id.s).ok THEN [ok |-> TRUE, keys |-> GormIdKeys(st, id)]
    ELSE IF id.s = SqlTrue THEN [ok |-> TRUE, keys |-> Present(st)]
    ELSE [ok |-> FALSE, keys |-> {}]

\* GormRepository.Delete: Delete(&model, id); zero affected rows are reported
\* as not found
GormRepository_Delete(st, id, fault) ==
    LET cond == GormInlineCondition(st, id)
    IN IF fault \/ ~cond.ok THEN WriteResult(DriverError, st, 0, 0)
       ELSE IF cond.keys = {} THEN WriteResult(ErrRecordNotFound, st, 0, 0)
       ELSE WriteResult(NilErr, Remove(st, cond.keys), 0, 0)

\* MongoRepository.Update: ReplaceOne({_id: oid}, data); the result with its
\* matched count is dropped and only the driver's error is returned
MongoRepository_Update(st, id, data, fault) ==
    LET conv == MongoRepository_toObjectID(id)
    IN IF ~conv.ok THEN WriteResult(ErrInvalidID, st, 0, 0)
       ELSE IF fault THEN WriteResult(DriverError, st, 0, 0)
       ELSE WriteResult(NilErr, MongoReplaceOne(st, conv.oid, data), 0, 0)

\* MongoRepository.Delete: DeleteOne({_id: oid}); the result with its deleted
\* count is dropped and only the driver's error is returned
MongoRepository_Delete(st, id, fault) ==
    LET conv == MongoRepository_toObjectID(id)
    IN IF ~conv.ok THEN WriteResult(ErrInvalidID, st, 0, 0)
       ELSE IF fault THEN WriteResult(DriverError, st, 0, 0)
       ELSE WriteResult(NilErr, Remove(st, {conv.oid}), 0, 0)

\* GormRepository.Create: Create(data); a zero primary key is assigned by the
\* table's auto-increment and written back into data, a key already present
\* is a duplicate
GormRepository_Create(st, idField, rec, fault) ==
    LET key == IF idField = 0 THEN MaxKey(st) + 1 ELSE idField
    IN IF fault \/ key \in Present(st) THEN WriteResult(DriverError, st, idField, 0)
       ELSE WriteResult(NilErr, (key :> rec) @@ st, key, key)

\* MongoRepository.Create: InsertOne(data); a zero _id is left out of the
\* document (omitempty) and generated by the driver, the insert result that
\* carries it is dropped and data is not touched
MongoRepository_Create(st, idField, rec, generated, fault) ==
    LET key == IF idField = 0 THEN generated ELSE idField
    IN IF fault \/ key \in Present(st) THEN WriteResult(DriverError, st, idField, 0)
       ELSE WriteResult(NilErr, (key :> rec) @@ st, idField, key)

(* ------------------- write scenarios: Create, Update, Delete ----------- *)
nonCrudVars == <<mq, gq, qtrace, qres, ctr, batch, meta, pg, heap>>

\* a hex string of the ObjectID's length that names key 1
OidHexOne == [i \in 1..OidHexLen |-> IF i = OidHexLen THEN "1" ELSE "0"]
CrudIds(a) ==
    IF a = "gorm" THEN {IntId(1), IntId(MaxId + 1), StrId(<<"1">>), StrId(<<"g">>), StrId(SqlTrue)}
    ELSE {OidId(1), OidId(MaxId + 1), StrId(OidHexOne), StrId(<<"g">>), IntId(1)}
CrudData == {Rec("user", 7)}
CreateIds == {0, 2}

\* a completed repository call: its arguments, what it returned, the store it
\* started from and, for FindByID, the Create it follows
CrudOp(name, id, fault, err, key, yields, rec, pre) ==
    [name |-> name, id |-> id, fault |-> fault, err |-> err, key |-> key,
     yields |-> yields, rec |-> rec, pre |-> pre]
NoCrud == CrudOp("none", IntId(0), FALSE, NilErr, 0, 0, Rec("", 0), <<>>)

InitCrud ==
    /\ adapter \in Adapters
    /\ store \in RepoStores
    /\ last = NoCrud
    /\ IdleQuery
    /\ ctr = NoCtr
    /\ batch = NoBatch
    /\ meta = NoMeta
    /\ pg = NoPage
    /\ heap = NoHeap

Written(name, id, fault, rec, r) ==
    /\ store' = r.store
    /\ last' = CrudOp(name, id, fault, r.err, r.key, r.yields, rec, store)
    /\ UNCHANGED adapter
    /\ UNCHANGED nonCrudVars

GormUpdate ==
    /\ adapter = "gorm"
    /\ \E id \in CrudIds("gorm"), data \in CrudData, fault \in BOOLEAN :
        Written("Update", id, fault, data, GormRepository_Update(store, id, data, fault))
MongoUpdate ==
    /\ adapter = "mongo"
    /\ \E id \in CrudIds("mongo"), data \in CrudData, fault \in BOOLEAN :
        Written("Update", id, fault, data, MongoRepository_Update(store, id, data, fault))
GormDelete ==
    /\ adapter = "gorm"
    /\ \E id \in CrudIds("gorm"), fault \in BOOLEAN :
        Written("Delete", id, fault, Rec("", 0), GormRepository_Delete(store, id, fault))
MongoDelete ==
    /\ adapter = "mongo"
    /\ \E id \in CrudIds("mongo"), fault \in BOOLEAN :
        Written("Delete", id, fault, Rec("", 0), MongoRepository_Delete(store, id, fault))
GormCreate ==
    /\ adapter = "gorm" /\ MaxKey(store) <= MaxId
    /\ \E idField \in CreateIds, rec \in CrudData, fault \in BOOLEAN :
        Written("Create", IntId(idField), fault, rec, GormRepository_Create(store, idField, rec, fault))
MongoCreate ==
    /\ adapter = "mongo" /\ MaxKey(store) <= MaxId
    /\ \E idField \in CreateIds, rec \in CrudData, fault \in BOOLEAN :
        \E generated \in (1..(MaxId + 1)) \ Present(store) :
            Written("Create", OidId(idField), fault, rec, MongoRepository_Create(store, idField, rec, generated, fault))

\* FindByID with the identifier the preceding successful Create left with the
\* caller
FindCreated ==
    /\ last.name = "Create" /\ last.err = NilErr
    /\ \E fault \in BOOLEAN :
        LET id == IF adapter = "gorm" THEN IntId(last.yields) ELSE OidId(last.yields)
            found == IF adapter = "mongo" THEN {MongoRepository_FindByID(store, id, fault)}
                     ELSE {GormRepository_FindByID(id, out) : out \in GormFirst(store, id, fault)}
        IN \E f \in found :
            last' = CrudOp("FindCreated", id, f.fault, f.err, f.key, last.key, last.rec, store)
    /\ UNCHANGED <<adapter, store>>
    /\ UNCHANGED nonCrudVars

NextCrud ==
    \/ GormUpdate \/ MongoUpdate \/ GormDelete \/ MongoDelete
    \/ GormCreate \/ MongoCreate \/ FindCreated

SpecCrud == InitCrud /\ [][NextCrud]_vars

\* C11: on both adapters Update and Delete with a well-formed identifier
\* that matches no record return RecordNotFound, whenever the store answers
C11_ZeroMatchIsNotFound ==
    (last.name \in {"Update", "Delete"} /\ WellFormed(adapter, last.id) /\ ~last.fault
        /\ Named(adapter, last.id) \notin Present(last.pre))
    => last.err = ErrRecordNotFound

\* C16: on both adapters the identifier a successful Create leaves with the
\* caller is accepted by FindByID, which returns the created record; in
\* FindCreated, yields holds the key Create inserted and rec the record
C16_CreateFindRoundTrip ==
    (last.name = "FindCreated" /\ ~last.fault)
    => (last.err = NilErr /\ last.key = last.yields /\ store[last.key] = last.rec)

\* C11 and C16 hold on the relational adapter, and C16 holds on the document
\* adapter when the caller set the _id before Create
C11_Relational == adapter = "gorm" => C11_ZeroMatchIsNotFound
C16_Relational == adapter = "gorm" => C16_CreateFindRoundTrip
C16_DocumentPresetId == (adapter = "mongo" /\ last.id.n # 0) => C16_CreateFindRoundTrip

(* ----------------------- repository: *OrFail reads --------------------- *)
\* a Go error value: its identity (what == compares), its message and the
\* error it wraps, if any (what errors.Is / errors.Unwrap follow)
ErrVal(e) == [id |-> e, msg |-> e, wraps |-> "none"]
\* fmt.Errorf without %w: a new error that wraps nothing
Errorf(msg) == [id |-> "errorf", msg |-> msg, wraps |-> "none"]
\* fmt.Errorf with %w: a new error that wraps err
ErrorfW(msg, e) == [id |-> "errorf", msg |-> msg, wraps |-> e]
ErrorsIs(e, target) == e.id = target \/ e.wraps = target

\* GormRepository.FindOrFail / FirstOrFail and GormQuery.FirstOrFail: the
\* not-found error is replaced by a new error, any other is passed on
GormRepository_FindOrFail(err) ==
    IF err = ErrRecordNotFound THEN Errorf("users with id not found") ELSE ErrVal(err)
GormRepository_FirstOrFail(err) ==
    IF err = ErrRecordNotFound THEN Errorf("no users found") ELSE ErrVal(err)
GormQuery_FirstOrFail(err) ==
    IF err = ErrRecordNotFound THEN Errorf("no records found") ELSE ErrVal(err)
\* MongoRepository.FindOrFail and MongoQuery.FirstOrFail likewise
MongoRepository_FindOrFail(err) ==
    IF err = ErrRecordNotFound THEN Errorf("record with ID not found") ELSE ErrVal(err)
MongoQuery_FirstOrFail(err) ==
    IF err = ErrRecordNotFound THEN Errorf("no records found matching query") ELSE ErrVal(err)
\* MongoRepository.FirstOrFail: every error is wrapped with %w
MongoRepository_FirstOrFail(err) == ErrorfW("no record found", err)

\* First on the repository and on a builder: the first row in key order
\* (the document builder skips q.skip rows), or the not-found error
FirstOf(rows, fault) ==
    IF fault THEN Outcome(DriverError, 0)
    ELSE IF Len(rows) = 0 THEN Outcome(ErrRecordNotFound, 0)
    ELSE Outcome(NilErr, rows[1])
GormRepository_First(st, fault) == FirstOf(SortedSeq(Present(st)), fault)
MongoRepository_First(st, fault) == FirstOf(SortedSeq(Present(st)), fault)
GormQuery_First(q, st, fault) == FirstOf(GormQuery_Find([q EXCEPT !.limit = 1], st), fault)
MongoQuery_First(q, st, fault) == FirstOf(MongoQuery_Find([q EXCEPT !.limit = 1], st), fault)

(* --------------------------- *OrFail scenarios ------------------------- *)
nonFailVars == <<ctr, batch, meta, pg, heap>>

\* a completed *OrFail call: the error of the lookup underneath and the
\* error value returned
FailOp(name, lookup, err, key) == [name |-> name, lookup |-> lookup, err |-> err, key |-> key]

InitFail ==
    /\ adapter \in Adapters
    /\ store \in RepoStores
    /\ last = FailOp("none", NilErr, ErrVal(NilErr), 0)
    /\ IdleQuery
    /\ ctr = NoCtr
    /\ batch = NoBatch
    /\ meta = NoMeta
    /\ pg = NoPage
    /\ heap = NoHeap

Failed(name, out, err) ==
    /\ last' = FailOp(name, out.err, IF out.err = NilErr THEN ErrVal(NilErr) ELSE err, out.key)
    /\ UNCHANGED <<adapter, store, mq, gq, qtrace, qres>>
    /\ UNCHANGED nonFailVars

GormFindOrFail ==
    /\ adapter = "gorm"
    /\ \E id \in CrudIds("gorm"), fault \in BOOLEAN : \E out \in GormFirst(store, id, fault) :
        LET found == GormRepository_FindByID(id, out)
        IN Failed("FindOrFail", found, GormRepository_FindOrFail(found.err))
MongoFindOrFail ==
    /\ adapter = "mongo"
    /\ \E id \in CrudIds("mongo"), fault \in BOOLEAN :
        LET found == MongoRepository_FindByID(store, id, fault)
        IN Failed("FindOrFail", found, MongoRepository_FindOrFail(found.err))
GormFirstOrFail ==
    /\ adapter = "gorm"
    /\ \E fault \in BOOLEAN :
        LET found == GormRepository_First(store, fault)
        IN Failed("FirstOrFail", found, GormRepository_FirstOrFail(found.err))
MongoFirstOrFail ==
    /\ adapter = "mongo"
    /\ \E fault \in BOOLEAN :
        LET found == MongoRepository_First(store, fault)
        IN Failed("FirstOrFail", found, MongoRepository_FirstOrFail(found.err))
GormQueryFirstOrFail ==
    /\ adapter = "gorm" /\ qtrace # <<>>
    /\ \E fault \in BOOLEAN :
        LET found == GormQuery_First(gq, store, fault)
        IN Failed("Query.FirstOrFail", found, GormQuery_FirstOrFail(found.err))
MongoQueryFirstOrFail ==
    /\ adapter = "mongo" /\ qtrace # <<>>
    /\ \E fault \in BOOLEAN :
        LET found == MongoQuery_First(mq, store, fault)
        IN Failed("Query.FirstOrFail", found, MongoQuery_FirstOrFail(found.err))

NextFail ==
    \/ RepoWhere \/ RepoOffset
    \/ GormFindOrFail \/ MongoFindOrFail
    \/ GormFirstOrFail \/ MongoFirstOrFail
    \/ GormQueryFirstOrFail \/ MongoQueryFirstOrFail

SpecFail == InitFail /\ [][NextFail]_vars

OrFailNames == {"FindOrFail", "FirstOrFail", "Query.FirstOrFail"}
\* C12: on both adapters, when the lookup underneath reports not-found, every
\* *OrFail variant returns an error with a message of its own that still
\* answers errors.Is(err, ErrRecordNotFound)
C12_OrFailKeepsKind ==
    (last.name \in OrFailNames /\ last.lookup = ErrRecordNotFound)
    => (last.err.id = "errorf" /\ ErrorsIs(last.err, ErrRecordNotFound))
\* the one variant that wraps with %w keeps the kind
C12_DocumentFirstOrFail ==
    (adapter = "mongo" /\ last.name = "FirstOrFail" /\ last.lookup = ErrRecordNotFound)
    => (last.err.id = "errorf" /\ ErrorsIs(last.err, ErrRecordNotFound))

(* --------------------- builders: sort and relations -------------------- *)
\* Order("field direction") and Preload(relation) on the statement
GormQuery_OrderBy(q, field, direction) == [q EXCEPT !.orders = Append(@, <<field, direction>>)]
GormQuery_With(q, relation) == [q EXCEPT !.preloads = Append(@, relation)]
GormRepository_OrderBy(field, direction) == GormQuery_OrderBy(NewGormQuery(<<>>), field, direction)
GormRepository_With(relation) == GormQuery_With(NewGormQuery(<<>>), relation)

\* MongoQuery.OrderBy appends a sort key, descending for "DESC" or "desc";
\* MongoRepository.OrderBy knows "desc" only; With keeps no relation
SortKey(field, order) == [key |-> field, value |-> order]
MongoQuery_OrderBy_Prepend(q, field, direction) ==
    [q EXCEPT !.sort = <<SortKey(field, IF direction \in {"DESC", "desc"} THEN -1 ELSE 1)>> \o @]
MongoQuery_OrderBy(q, field, direction) ==
    [q EXCEPT !.sort = Append(@, SortKey(field, IF direction \in {"DESC", "desc"} THEN -1 ELSE 1))]
MongoQuery_With(q, relation) == q
MongoQuery_OrderByDesc(q, field) == [q EXCEPT !.sort = Append(@, SortKey(field, -1))]
MongoQuery_OrderByAsc(q, field) == [q EXCEPT !.sort = Append(@, SortKey(field, 1))]
GormQuery_OrderByDesc(q, field) == [q EXCEPT !.orders = Append(@, <<field, "DESC">>)]
GormQuery_OrderByAsc(q, field) == [q EXCEPT !.orders = Append(@, <<field, "ASC">>)]
MongoRepository_OrderBy(field, direction) ==
    [NewMongoQuery(EmptyFilter) EXCEPT !.sort = <<SortKey(field, IF direction = "desc" THEN -1 ELSE 1)>>]
MongoRepository_With(relation) == NewMongoQuery(EmptyFilter)

\* the builder a query-entry method returns, by method
GormEntry(c) ==
    CASE c.m = "Where" -> GormRepository_Where(c.field, c.args[1])
      [] c.m = "WhereIn" -> GormRepository_WhereIn(c.field, c.args)
      [] c.m = "WhereNotIn" -> GormRepository_WhereNotIn(c.field, c.args)
      [] c.m = "WhereBetween" -> GormRepository_WhereBetween(c.field, c.args[1], c.args[2])
      [] c.m = "WhereNull" -> GormRepository_WhereNull(c.field)
      [] c.m = "WhereNotNull" -> GormRepository_WhereNotNull(c.field)
      [] c.m = "With" -> GormRepository_With(c.field)
      [] c.m = "OrderBy" -> GormRepository_OrderBy(c.field, c.args[1])
      [] c.m = "Limit" -> GormRepository_Limit(c.args[1])
      [] c.m = "Offset" -> GormRepository_Offset(c.args[1])
MongoEntry(c) ==
    CASE c.m = "Where" -> MongoRepository_Where(c.field, c.args[1])
      [] c.m = "WhereIn" -> MongoRepository_WhereIn(c.field, c.args)
      [] c.m = "WhereNotIn" -> MongoRepository_WhereNotIn(c.field, c.args)
      [] c.m = "WhereBetween" -> MongoRepository_WhereBetween(c.field, c.args[1], c.args[2])
      [] c.m = "WhereNull" -> MongoRepository_WhereNull(c.field)
      [] c.m = "WhereNotNull" -> MongoRepository_WhereNotNull(c.field)
      [] c.m = "With" -> MongoRepository_With(c.field)
      [] c.m = "OrderBy" -> MongoRepository_OrderBy(c.field, c.args[1])
      [] c.m = "Limit" -> MongoRepository_Limit(c.args[1])
      [] c.m = "Offset" -> MongoRepository_Offset(c.args[1])
\* a chained method applied to the statement / struct of a builder
GormApply(q, c) ==
    CASE c.m = "Where" -> GormQuery_Where(q, c.field, c.args[1])
      [] c.m = "WhereIn" -> GormQuery_WhereIn(q, c.field, c.args)
      [] c.m = "WhereNotIn" -> GormQuery_WhereNotIn(q, c.field, c.args)
      [] c.m = "WhereBetween" -> GormQuery_WhereBetween(q, c.field, c.args[1], c.args[2])
      [] c.m = "WhereNull" -> GormQuery_WhereNull(q, c.field)
      [] c.m = "WhereNotNull" -> GormQuery_WhereNotNull(q, c.field)
      [] c.m = "OrWhere" -> GormQuery_OrWhere(q, c.field, c.args[1])
      [] c.m = "With" -> GormQuery_With(q, c.field)
      [] c.m = "OrderBy" -> GormQuery_OrderBy(q, c.field, c.args[1])
      [] c.m = "Limit" -> GormQuery_Limit(q, c.args[1])
      [] c.m = "Offset" -> GormQuery_Offset(q, c.args[1])
MongoApply(q, c) ==
    CASE c.m = "Where" -> MongoQuery_Where(q, c.field, c.args[1])
      [] c.m = "WhereIn" -> MongoQuery_WhereIn(q, c.field, c.args)
      [] c.m = "WhereNotIn" -> MongoQuery_WhereNotIn(q, c.field, c.args)
      [] c.m = "WhereBetween" -> MongoQuery_WhereBetween(q, c.field, c.args[1], c.args[2])
      [] c.m = "WhereNull" -> MongoQuery_WhereNull(q, c.field)
      [] c.m = "WhereNotNull" -> MongoQuery_WhereNotNull(q, c.field)
      [] c.m = "OrWhere" -> MongoQuery_OrWhere(q, c.field, c.args[1])
      [] c.m = "With" -> MongoQuery_With(q, c.field)
      [] c.m = "OrderBy" -> MongoQuery_OrderBy(q, c.field, c.args[1])
      [] c.m = "Limit" -> MongoQuery_Limit(q, c.args[1])
      [] c.m = "Offset" -> MongoQuery_Offset(q, c.args[1])

(* ---------------------- repositories and handles ----------------------- *)
\* a transaction handle as WithTransaction receives it (tx any)
NoTx == [type |-> "none"]
GormTx == [type |-> "*gorm.DB"]
MongoSession == [type |-> "mongo.SessionContext"]
OtherHandle == [type |-> "string"]
Handles == {GormTx, MongoSession, OtherHandle}
ExpectedHandle(a) == IF a = "gorm" THEN GormTx ELSE MongoSession

\* GormRepository{db, model, tableName, tx} / MongoRepository{collection,
\* model, session}: only the bound handle varies
Repository(tx) == [tx |-> tx]
\* getDB / getReadDB: the transaction when one is bound, else the write /
\* the read connection
getDB(r) == IF r.tx # NoTx THEN "tx" ELSE "write"
getReadDB(r) == IF r.tx # NoTx THEN "tx" ELSE "read"

\* a chain method called on a *gorm.DB: a connection or a transaction
\* (clone = 1) answers with a new empty statement, a session copy (clone = 2)
\* with a copy of its statement, a chained value (clone = 0) with its own
\* statement, which the method then changes in place
GormGetInstance_Shared(objs, clone, stmt) == [objs |-> objs, stmt |-> stmt]
GormGetInstance(objs, clone, stmt) ==
    CASE clone = 0 -> [objs |-> objs, stmt |-> stmt]
      [] clone = 1 -> [objs |-> Append(objs, NewGormQuery(<<>>)), stmt |-> Len(objs) + 1]
      [] OTHER -> [objs |-> Append(objs, objs[stmt]), stmt |-> Len(objs) + 1]
RootStmt == 1

\* a builder as its caller holds it: the repository it came from, the
\* statement / struct it points to, its connection, and the calls made on it
Builder(repo, obj, conn, entry) ==
    [repo |-> repo, obj |-> obj, conn |-> conn, entry |-> entry, chain |-> <<>>]

(* ---------------- builder scenarios: several builders ------------------ *)
nonHeapVars == <<adapter, store, mq, gq, qtrace, qres, last, ctr, batch, meta, pg>>

\* the claim is about two builders obtained from one repository
BuilderNames == {"first", "second"}

EntryCalls ==
    {Call("Where", "role", <<"admin">>), Call("WhereIn", "role", <<"admin", "user">>),
     Call("WhereNotIn", "role", <<"user">>), Call("WhereBetween", "role", <<"admin", "user">>),
     Call("WhereNull", "role", <<>>), Call("WhereNotNull", "role", <<>>),
     Call("With", "profile", <<>>), Call("OrderBy", "role", <<"desc">>),
     Call("Limit", "", <<2>>), Call("Offset", "", <<1>>)}
ChainCalls ==
    {Call("Where", "role", <<"user">>), Call("OrderBy", "name", <<"asc">>), Call("Limit", "", <<3>>)}

InitFresh ==
    /\ adapter \in Adapters
    /\ store = NoRows
    /\ \E tx \in {NoTx, ExpectedHandle(adapter)} :
        heap = [NoHeap EXCEPT !.repos = <<Repository(tx)>>,
                              !.objs = IF adapter = "gorm" THEN <<NewGormQuery(<<>>)>> ELSE <<>>]
    /\ last = NoOp
    /\ IdleQuery
    /\ ctr = NoCtr
    /\ batch = NoBatch
    /\ meta = NoMeta
    /\ pg = NoPage

\* a query-entry method on the relational repository: the method is called
\* on getReadDB() and the value it returns is kept in the new GormQuery
GormQueryEntry ==
    /\ adapter = "gorm" /\ Len(heap.builders) < Cardinality(BuilderNames)
    /\ ~heap.panicked
    /\ \E r \in 1..Len(heap.repos), c \in EntryCalls :
        LET inst == GormGetInstance(heap.objs, 1, RootStmt)
        IN heap' = [heap EXCEPT !.objs = [inst.objs EXCEPT ![inst.stmt] = GormApply(@, c)],
                                !.builders = Append(@, Builder(r, inst.stmt, getReadDB(heap.repos[r]), c))]
    /\ UNCHANGED nonHeapVars

\* a query-entry method on the document repository: a new MongoQuery struct
MongoQueryEntry ==
    /\ adapter = "mongo" /\ Len(heap.builders) < Cardinality(BuilderNames)
    /\ ~heap.panicked
    /\ \E r \in 1..Len(heap.repos), c \in EntryCalls :
        heap' = [heap EXCEPT !.objs = Append(@, MongoEntry(c)),
                             !.builders = Append(@, Builder(r, Len(heap.objs) + 1, "collection", c))]
    /\ UNCHANGED nonHeapVars

\* a chained method on a builder: q.db = q.db.Where(..) on the relational
\* adapter (q.db is a chained value), q.filter[...] = ... on the document one
GormChain ==
    /\ adapter = "gorm"
    /\ \E b \in 1..Len(heap.builders), c \in ChainCalls :
        /\ Len(heap.builders[b].chain) < MaxChain
        /\ LET inst == GormGetInstance(heap.objs, 0, heap.builders[b].obj)
           IN heap' = [heap EXCEPT !.objs = [inst.objs EXCEPT ![inst.stmt] = GormApply(@, c)],
                                   !.builders[b].obj = inst.stmt,
                                   !.builders[b].chain = Append(@, c)]
    /\ UNCHANGED nonHeapVars
MongoChain ==
    /\ adapter = "mongo"
    /\ \E b \in 1..Len(heap.builders), c \in ChainCalls :
        /\ Len(heap.builders[b].chain) < MaxChain
        /\ heap' = [heap EXCEPT !.objs[heap.builders[b].obj] = MongoApply(@, c),
                                !.builders[b].chain = Append(@, c)]
    /\ UNCHANGED nonHeapVars

NextFresh == GormQueryEntry \/ MongoQueryEntry \/ GormChain \/ MongoChain

SpecFresh == InitFresh /\ [][NextFresh]_vars

\* what a builder holds according to the calls made on it alone
RECURSIVE Replayed(_, _, _, _)
Replayed(a, entry, chain, n) ==
    IF n = 0 THEN (IF a = "gorm" THEN GormEntry(entry) ELSE MongoEntry(entry))
    ELSE IF a = "gorm" THEN GormApply(Replayed(a, entry, chain, n - 1), chain[n])
    ELSE MongoApply(Replayed(a, entry, chain, n - 1), chain[n])

\* C13: every query-entry method returns a new builder that holds that one
\* condition and then exactly what is chained on it; no two builders share
\* state and the repository's own connection statement stays empty
C13_FreshBuilders ==
    /\ \A b \in 1..Len(heap.builders) :
        LET h == heap.builders[b]
        IN heap.objs[h.obj] = Replayed(adapter, h.entry, h.chain, Len(h.chain))
    /\ \A b1, b2 \in 1..Len(heap.builders) : b1 # b2 => heap.builders[b1].obj # heap.builders[b2].obj
    /\ Len(heap.repos) = 1 /\ heap.repos[1] \in {Repository(NoTx), Repository(ExpectedHandle(adapter))}
    /\ adapter = "gorm" => heap.objs[RootStmt] = NewGormQuery(<<>>)
C13_Witness ==
    /\ adapter = "gorm" /\ Len(heap.builders) = 2
    /\ heap.builders[1].entry.m = "Where" /\ heap.builders[2].entry.m = "Limit"
    /\ Len(heap.builders[1].chain) = 2 /\ Len(heap.builders[2].chain) = 1
    /\ heap.builders[1].chain[2].m = "Limit"
    /\ heap.objs[heap.builders[1].obj].limit = 3 /\ heap.objs[heap.builders[2].obj].limit = 2
    /\ Len(heap.objs[heap.builders[2].obj].wheres) = 0
C13_WitnessMongo ==
    /\ adapter = "mongo" /\ Len(heap.builders) = 2
    /\ heap.builders[1].entry.m = "Where" /\ heap.builders[2].entry.m = "With"
    /\ Len(heap.builders[1].chain) = 2 /\ Len(heap.builders[2].chain) = 0
    /\ heap.objs[heap.builders[2].obj] = NewMongoQuery(EmptyFilter)

(* ------------- transactions and connections: scenarios ----------------- *)
\* WithTransaction: the type assertion on the handle, then a new repository
\* with the receiver's fields and the handle; the receiver is not assigned
NoRepo == [tx |-> [type |-> "no repository"]]
GormRepository_WithTransaction_Rebind(r, tx) ==
    IF tx.type # "*gorm.DB" THEN [panicked |-> TRUE, recv |-> r, ret |-> NoRepo]
    ELSE [panicked |-> FALSE, recv |-> Repository(tx), ret |-> Repository(tx)]
GormRepository_WithTransaction(r, tx) ==
    IF tx.type # "*gorm.DB" THEN [panicked |-> TRUE, recv |-> r, ret |-> NoRepo]
    ELSE [panicked |-> FALSE, recv |-> r, ret |-> Repository(tx)]
MongoRepository_WithTransaction(r, tx) ==
    IF tx.type # "mongo.SessionContext" THEN [panicked |-> TRUE, recv |-> r, ret |-> NoRepo]
    ELSE [panicked |-> FALSE, recv |-> r, ret |-> Repository(tx)]

\* the relational repository's own operations by the accessor they call
GormReadOps == {"FindByID", "FindOrFail", "First", "FirstOrFail", "FindAll", "Exists", "Count", "Pluck"}
GormWriteOps == {"Create", "Update", "Delete", "CreateBatch", "UpdateBatch", "DeleteBatch", "Increment", "Decrement"}
\* the terminals of GormQuery; all of them run on q.db
GormQueryReads == {"Query.Find", "Query.First", "Query.Count", "Query.Exists", "Query.Pluck"}
GormQueryWrites == {"Query.Update", "Query.Delete"}
IsWrite(op) == op \in GormWriteOps \cup GormQueryWrites

\* one statement as the driver receives it: the operation, the connection
\* and whether the repository it came from had a transaction bound
Statement(op, conn, repo) == [op |-> op, conn |-> conn, bound |-> repo.tx # NoTx]

\* the repositories one program may hold: the constructed one and the
\* ones it derives from it
RepoNames == {"base", "derived", "nested"}

NoTxCall == [name |-> "none", recv |-> 0, tx |-> NoTx, pre |-> <<>>, ret |-> 0]

InitRoute ==
    /\ adapter \in Adapters
    /\ store = NoRows
    /\ heap = [NoHeap EXCEPT !.repos = <<Repository(NoTx)>>,
                             !.objs = IF adapter = "gorm" THEN <<NewGormQuery(<<>>)>> ELSE <<>>]
    /\ last = NoTxCall
    /\ IdleQuery
    /\ ctr = NoCtr
    /\ batch = NoBatch
    /\ meta = NoMeta
    /\ pg = NoPage

nonRouteVars == <<adapter, store, mq, gq, qtrace, qres, ctr, batch, meta, pg>>

TxCall(r, tx, res) ==
    /\ heap' = [heap EXCEPT !.repos = IF res.panicked THEN [@ EXCEPT ![r] = res.recv]
                                      ELSE Append([@ EXCEPT ![r] = res.recv], res.ret),
                            !.panicked = res.panicked]
    /\ last' = [name |-> "WithTransaction", recv |-> r, tx |-> tx, pre |-> heap.repos,
                ret |-> IF res.panicked THEN 0 ELSE Len(heap.repos) + 1]

GormWithTransaction ==
    /\ adapter = "gorm" /\ ~heap.panicked /\ Len(heap.repos) < Cardinality(RepoNames)
    /\ \E r \in 1..Len(heap.repos), tx \in Handles :
        TxCall(r, tx, GormRepository_WithTransaction(heap.repos[r], tx))
    /\ UNCHANGED nonRouteVars
MongoWithTransaction ==
    /\ adapter = "mongo" /\ ~heap.panicked /\ Len(heap.repos) < Cardinality(RepoNames)
    /\ \E r \in 1..Len(heap.repos), tx \in Handles :
        TxCall(r, tx, MongoRepository_WithTransaction(heap.repos[r], tx))
    /\ UNCHANGED nonRouteVars

\* a read / a write of the relational repository itself
GormRepoRead ==
    /\ adapter = "gorm" /\ ~heap.panicked
    /\ \E r \in 1..Len(heap.repos), op \in GormReadOps :
        heap' = [heap EXCEPT !.sent = <<Statement(op, getReadDB(heap.repos[r]), heap.repos[r])>>]
    /\ UNCHANGED <<nonRouteVars, last>>
GormRepoWrite ==
    /\ adapter = "gorm" /\ ~heap.panicked
    /\ \E r \in 1..Len(heap.repos), op \in GormWriteOps :
        heap' = [heap EXCEPT !.sent = <<Statement(op, getDB(heap.repos[r]), heap.repos[r])>>]
    /\ UNCHANGED <<nonRouteVars, last>>
\* a terminal of a builder: q.db.WithContext(ctx).<terminal>
GormQueryTerminal ==
    /\ adapter = "gorm" /\ ~heap.panicked
    /\ \E b \in 1..Len(heap.builders), op \in GormQueryReads \cup GormQueryWrites :
        heap' = [heap EXCEPT !.sent = <<Statement(op, heap.builders[b].conn, heap.repos[heap.builders[b].repo])>>]
    /\ UNCHANGED <<nonRouteVars, last>>

NextRoute ==
    \/ GormWithTransaction \/ MongoWithTransaction
    \/ GormRepoRead \/ GormRepoWrite
    \/ GormQueryEntry \/ MongoQueryEntry \/ GormQueryTerminal

SpecRoute == InitRoute /\ [][NextRoute]_vars

\* C14: WithTransaction with a handle of the adapter's transaction type
\* returns a new repository bound to it and leaves the receiver, and every
\* other repository, as it was; with any other handle it panics and no
\* repository is returned
C14_WithTransaction ==
    last.name = "WithTransaction" =>
        IF last.tx = ExpectedHandle(adapter)
        THEN /\ ~heap.panicked
             /\ last.ret = Len(last.pre) + 1 /\ Len(heap.repos) >= last.ret
             /\ heap.repos[last.ret] = Repository(last.tx)
             /\ \A i \in 1..Len(last.pre) : heap.repos[i] = last.pre[i]
        ELSE heap.panicked /\ last.ret = 0 /\ heap.repos = last.pre
C14_Witness ==
    /\ last.name = "WithTransaction" /\ last.recv = 1 /\ last.tx = ExpectedHandle(adapter)
    /\ heap.repos[1] = Repository(NoTx) /\ heap.repos[last.ret].tx = last.tx
C14_WitnessPanic ==
    /\ last.name = "WithTransaction" /\ last.tx = OtherHandle /\ heap.panicked

\* C15: with no transaction bound, a read goes to the read connection and
\* a write to the write connection, the builder's Update and Delete included
C15_WritesOnWriteConnection ==
    \A i \in 1..Len(heap.sent) :
        ~heap.sent[i].bound =>
            heap.sent[i].conn = (IF IsWrite(heap.sent[i].op) THEN "write" ELSE "read")
\* the repository's own operations and the builder's reads are routed as
\* C15 says; a bound repository sends everything on its transaction
C15_RepositoryRouting ==
    \A i \in 1..Len(heap.sent) :
        /\ heap.sent[i].bound => heap.sent[i].conn = "tx"
        /\ (~heap.sent[i].bound /\ heap.sent[i].op \notin GormQueryWrites) =>
            heap.sent[i].conn = (IF IsWrite(heap.sent[i].op) THEN "write" ELSE "read")
\* the builder's write terminals are sent to the read connection
C15_QueryWritesOnReadConnection ==
    \A i \in 1..Len(heap.sent) :
        (~heap.sent[i].bound /\ heap.sent[i].op \in GormQueryWrites) => heap.sent[i].conn = "read"

(* ------------- transactions: operations on a bound repository ---------- *)
\* the context a caller hands to an operation of the document adapter: a
\* plain one, or the session context itself
Contexts == {"background", "session"}
\* every operation of MongoRepository and every terminal of MongoQuery calls
\* the collection with the caller's ctx; the driver runs the command in a
\* session only when ctx carries one. The session field is never read
MongoStatement(op, ctx, repo) ==
    [op |-> op, conn |-> IF ctx = "session" THEN "tx" ELSE "collection",
     bound |-> repo.tx # NoTx, ctx |-> ctx]

MongoRepoOp ==
    /\ adapter = "mongo" /\ ~heap.panicked
    /\ \E r \in 1..Len(heap.repos), op \in GormReadOps \cup GormWriteOps, ctx \in Contexts :
        heap' = [heap EXCEPT !.sent = <<MongoStatement(op, ctx, heap.repos[r])>>]
    /\ UNCHANGED <<nonRouteVars, last>>
MongoQueryTerminal ==
    /\ adapter = "mongo" /\ ~heap.panicked
    /\ \E b \in 1..Len(heap.builders), op \in GormQueryReads \cup GormQueryWrites, ctx \in Contexts :
        heap' = [heap EXCEPT !.sent = <<MongoStatement(op, ctx, heap.repos[heap.builders[b].repo])>>]
    /\ UNCHANGED <<nonRouteVars, last>>

\* one builder from any of the repositories
BoundEntry == heap.builders = <<>> /\ (GormQueryEntry \/ MongoQueryEntry)

NextBound ==
    \/ GormWithTransaction \/ MongoWithTransaction
    \/ GormRepoRead \/ GormRepoWrite
    \/ BoundEntry \/ GormQueryTerminal
    \/ MongoRepoOp \/ MongoQueryTerminal

SpecBound == InitRoute /\ [][NextBound]_vars

\* C26: every operation issued through a repository that WithTransaction(h)
\* returned, the terminals of its builders included, is executed on h
C26_OnTheHandle ==
    \A i \in 1..Len(heap.sent) : heap.sent[i].bound => heap.sent[i].conn = "tx"
\* the relational adapter does so
C26_Relational ==
    adapter = "gorm" => \A i \in 1..Len(heap.sent) : heap.sent[i].bound => heap.sent[i].conn = "tx"
\* on the document adapter the context alone decides, bound or not
C26_DocumentFollowsContext ==
    adapter = "mongo" =>
        \A i \in 1..Len(heap.sent) : (heap.sent[i].conn = "tx") <=> (heap.sent[i].ctx = "session")

(* ------------------- conjunction of predicates ------------------------- *)
\* a record satisfies the predicate of one Where* call: what the builder
\* seeded with that call alone matches
Satisfies(a, doc, c) ==
    IF a = "mongo" THEN MongoMatch(doc, MongoEntry(c).filter)
    ELSE SqlWhere(doc, GormEntry(c).wheres)
PredicateCalls == WhereCalls \ {"OrWhere"}
PredicatesOnly == qtrace # <<>> /\ \A i \in 1..Len(qtrace) : qtrace[i].m \in PredicateCalls
SatisfiesAll(k) == \A i \in 1..Len(qtrace) : Satisfies(adapter, store[k], qtrace[i])
DistinctFields == \A i, j \in 1..Len(qtrace) : i # j => qtrace[i].field # qtrace[j].field

\* C17: a builder made of Where* calls only matches exactly the records
\* that satisfy every predicate added, also when two name the same field
C17_Conjunction ==
    (PredicatesOnly /\ qres.hasRows) => Elems(qres.rows) = {k \in Present(store) : SatisfiesAll(k)}
\* the relational builder accumulates every predicate
C17_Relational ==
    (adapter = "gorm" /\ PredicatesOnly /\ qres.hasRows) =>
        Elems(qres.rows) = {k \in Present(store) : SatisfiesAll(k)}
\* the document builder keeps one predicate per field: predicates on
\* different fields accumulate, a later one on the same field replaces
C17_DocumentDistinctFields ==
    (adapter = "mongo" /\ PredicatesOnly /\ DistinctFields /\ qres.hasRows) =>
        Elems(qres.rows) = {k \in Present(store) : SatisfiesAll(k)}
C17_DocumentLastPerField ==
    (adapter = "mongo" /\ PredicatesOnly /\ qres.hasRows) =>
        Elems(qres.rows) =
            {k \in Present(store) :
                \A i \in 1..Len(qtrace) :
                    (\A j \in (i + 1)..Len(qtrace) : qtrace[j].field # qtrace[i].field)
                        => Satisfies(adapter, store[k], qtrace[i])}

(* --------------------------- OR-groups --------------------------------- *)
\* a builder made of predicates followed by OrWhere calls only
OrShape ==
    \E n \in 2..Len(qtrace) :
        /\ \A i \in 1..(n - 1) : qtrace[i].m \in PredicateCalls
        /\ \A i \in n..Len(qtrace) : qtrace[i].m = "OrWhere"
FirstOr == CHOOSE n \in 2..Len(qtrace) : qtrace[n].m = "OrWhere" /\ \A i \in 1..(n - 1) : qtrace[i].m # "OrWhere"
\* the builder as it was before call n of the trace
BuilderBefore(n) == Replayed(adapter, qtrace[1], Tail(qtrace), n - 2)
Matching(q) == IF adapter = "mongo" THEN MongoMatching(store, q.filter) ELSE GormMatching(store, q.wheres)
Current == IF adapter = "mongo" THEN mq ELSE gq
Alternative(i) == {k \in Present(store) : Satisfies(adapter, store[k], [qtrace[i] EXCEPT !.m = "Where"])}
Alternatives == UNION {Alternative(i) : i \in FirstOr..Len(qtrace)}
AltFilter(i) == SetKey(EmptyFilter, qtrace[i].field, MEq(qtrace[i].args[1]))

\* C18: after the first OrWhere the earlier predicates form the first
\* alternative of one OR-group and f = v the second; every later OrWhere
\* adds one alternative to that group: the builder matches the records
\* that satisfy all earlier predicates or any one alternative
C18_OrGroup ==
    OrShape => Matching(Current) = Matching(BuilderBefore(FirstOr)) \cup Alternatives
\* the relational builder: AND binds tighter than OR in the built clause
C18_Relational ==
    (adapter = "gorm" /\ OrShape) =>
        /\ Matching(Current) = Matching(BuilderBefore(FirstOr)) \cup Alternatives
        /\ gq.wheres = BuilderBefore(FirstOr).wheres
                \o [i \in 1..(Len(qtrace) - FirstOr + 1) |->
                        GOr(GExpr("eq", qtrace[FirstOr + i - 1].field, qtrace[FirstOr + i - 1].args))]
\* the document builder: the earlier predicates become one $and group
\* beside the $or group, which holds the OrWhere conditions only; a later
\* OrWhere appends one alternative and changes nothing else
C18_DocumentStructure ==
    (adapter = "mongo" /\ OrShape) =>
        /\ DOMAIN mq.filter = {"$and", "$or"}
        /\ mq.filter["$and"] = MGroup(<<BuilderBefore(FirstOr).filter>>)
        /\ mq.filter["$or"] = MGroup([i \in 1..(Len(qtrace) - FirstOr + 1) |-> AltFilter(FirstOr + i - 1)])
        /\ Matching(Current) = Matching(BuilderBefore(FirstOr)) \cap Alternatives

(* ------------------ document builder: group methods -------------------- *)
\* OrQuery / AndQuery: nothing with no argument; else the filter, when it
\* holds anything, becomes the first member of the list stored under the
\* group key of an otherwise empty filter
MongoQuery_OrQuery(q, queries) ==
    IF Len(queries) = 0 THEN q
    ELSE [q EXCEPT !.filter =
            SetKey(EmptyFilter, "$or",
                   MGroup(IF DOMAIN q.filter # {} THEN <<q.filter>> \o queries ELSE queries))]
MongoQuery_AndQuery(q, queries) ==
    IF Len(queries) = 0 THEN q
    ELSE [q EXCEPT !.filter =
            SetKey(EmptyFilter, "$and",
                   MGroup(IF DOMAIN q.filter # {} THEN <<q.filter>> \o queries ELSE queries))]
\* NorQuery: nothing with no argument; else the list is stored under $nor
\* of the filter as it is
MongoQuery_NorQuery_Regroup(q, queries) ==
    IF Len(queries) = 0 THEN q
    ELSE [q EXCEPT !.filter =
            SetKey(EmptyFilter, "$nor",
                   MGroup(IF DOMAIN q.filter # {} THEN <<q.filter>> \o queries ELSE queries))]
MongoQuery_NorQuery(q, queries) ==
    IF Len(queries) = 0 THEN q
    ELSE [q EXCEPT !.filter = SetKey(q.filter, "$nor", MGroup(queries))]

(* ----------------- group scenarios: document builder ------------------- *)
nonGroupVars == <<gq, qres, ctr, batch, meta, pg, heap>>

\* the filter documents handed to the group methods
GroupArgs == {SetKey(EmptyFilter, "role", MEq("admin")), SetKey(EmptyFilter, "counter", MEq(1))}
GroupLists == {<<>>} \cup {<<f>> : f \in GroupArgs} \cup {<<f, g>> : f, g \in GroupArgs}

NoGroupCall == [name |-> "none", queries |-> <<>>, pre |-> EmptyFilter]

InitGroup ==
    /\ adapter = "mongo"
    /\ store \in {st \in QueryStores : Cardinality(Present(st)) >= 3}
    /\ mq = NewMongoQuery(EmptyFilter)
    /\ gq = NewGormQuery(<<>>)
    /\ qtrace = <<>>
    /\ qres = NoRes
    /\ last = NoGroupCall
    /\ ctr = NoCtr
    /\ batch = NoBatch
    /\ meta = NoMeta
    /\ pg = NoPage
    /\ heap = NoHeap

GroupStep(name, queries, new) ==
    /\ Len(qtrace) <= MaxChain
    /\ mq' = new
    /\ qtrace' = Append(qtrace, Call(name, "", <<>>))
    /\ last' = [name |-> name, queries |-> queries, pre |-> mq.filter]
    /\ UNCHANGED <<adapter, store>>
    /\ UNCHANGED nonGroupVars

GroupWhere == \E p \in EqPreds : GroupStep("Where", <<>>, MongoQuery_Where(mq, p[1], p[2]))
GroupOrWhere == \E p \in EqPreds : GroupStep("OrWhere", <<>>, MongoQuery_OrWhere(mq, p[1], p[2]))
OrQuery == \E qs \in GroupLists : GroupStep("OrQuery", qs, MongoQuery_OrQuery(mq, qs))
AndQuery == \E qs \in GroupLists : GroupStep("AndQuery", qs, MongoQuery_AndQuery(mq, qs))
NorQuery == \E qs \in GroupLists : GroupStep("NorQuery", qs, MongoQuery_NorQuery(mq, qs))

NextGroup == GroupWhere \/ GroupOrWhere \/ OrQuery \/ AndQuery \/ NorQuery

SpecGroup == InitGroup /\ [][NextGroup]_vars

Regrouped(key) ==
    mq.filter = SetKey(EmptyFilter, key,
                       MGroup(IF DOMAIN last.pre # {} THEN <<last.pre>> \o last.queries ELSE last.queries))
MatchesNone(doc, queries) == \A i \in 1..Len(queries) : ~MongoMatch(doc, queries[i])

C19_WitnessAnd ==
    /\ last.name = "AndQuery" /\ Len(last.queries) = 1
    /\ DOMAIN last.pre = {"role"} /\ DOMAIN mq.filter = {"$and"}

(* --------------------- document DeleteBatch ---------------------------- *)
\* the conversion loop: every id is converted before anything is sent; the
\* first id that does not convert ends the call
RECURSIVE ConvertIds(_, _, _)
ConvertIds(ids, i, objectIDs) ==
    IF i > Len(ids) THEN [ok |-> TRUE, at |-> i, oids |-> objectIDs]
    ELSE LET conv == MongoRepository_toObjectID(ids[i])
         IN IF ~conv.ok THEN [ok |-> FALSE, at |-> i, oids |-> objectIDs]
            ELSE ConvertIds(ids, i + 1, Append(objectIDs, conv.oid))

\* one delete per id in list order, stopping at the first id that fails
RECURSIVE DeleteEach(_, _, _)
DeleteEach(st, ids, i) ==
    IF i > Len(ids) THEN [err |-> NilErr, store |-> st, at |-> i, calls |-> Len(ids)]
    ELSE LET conv == MongoRepository_toObjectID(ids[i])
         IN IF ~conv.ok THEN [err |-> ErrInvalidID, store |-> st, at |-> i, calls |-> i - 1]
            ELSE DeleteEach(Remove(st, {conv.oid}), ids, i + 1)
MongoRepository_DeleteBatch_PerId(st, ids, fault, partial) == DeleteEach(st, ids, 1)
\* DeleteBatch: convert all ids, then one DeleteMany({_id: {$in: objectIDs}});
\* a DeleteMany that returns an error may have removed any of the documents
MongoRepository_DeleteBatch(st, ids, fault, partial) ==
    LET conv == ConvertIds(ids, 1, <<>>)
    IN IF ~conv.ok THEN [err |-> ErrInvalidID, store |-> st, at |-> conv.at, calls |-> 0]
       ELSE IF fault
       THEN [err |-> DriverError, store |-> Remove(st, partial \cap Elems(conv.oids)), at |-> conv.at, calls |-> 1]
       ELSE [err |-> NilErr, store |-> Remove(st, Elems(conv.oids)), at |-> conv.at, calls |-> 1]

(* --------------------- batch scenarios: DeleteBatch -------------------- *)
DeleteIds == BatchIds("mongo") \cup {IntId(2)}
DeleteStores == {[k \in S |-> SeedRec(k)] : S \in SUBSET (1..3)}

InitDelete ==
    /\ adapter = "mongo"
    /\ store \in DeleteStores
    /\ batch = NoBatch
    /\ meta = NoMeta
    /\ pg = NoPage
    /\ heap = NoHeap
    /\ ctr = NoCtr
    /\ last = NoOp
    /\ IdleQuery

MongoDeleteBatch ==
    /\ batch.pc = "idle"
    /\ \E ids \in SeqsUpTo(DeleteIds, MaxBatch), fault \in BOOLEAN, partial \in SUBSET (1..3) :
        LET r == MongoRepository_DeleteBatch(store, ids, fault, partial)
        IN /\ store' = r.store
           /\ batch' = [NoBatch EXCEPT !.pc = "done", !.ids = ids, !.pre = store, !.i = r.at,
                                       !.err = r.err, !.tx = IF r.calls = 0 THEN "none" ELSE "sent"]
    /\ UNCHANGED adapter
    /\ UNCHANGED nonBatchVars
\* the caller goes on to its next call
DeleteBatchReturn ==
    /\ batch.pc = "done"
    /\ batch' = NoBatch
    /\ UNCHANGED <<adapter, store>>
    /\ UNCHANGED nonBatchVars

NextDelete == MongoDeleteBatch \/ DeleteBatchReturn

SpecDelete == InitDelete /\ [][NextDelete]_vars

NamedBefore(k) == {Named(adapter, batch.ids[j]) : j \in 1..(k - 1)}

\* C20 as stated: when DeleteBatch fails at the k-th id, the records named
\* by ids 1..k-1 have been deleted
C20_AsStated ==
    (batch.pc = "done" /\ batch.err = ErrInvalidID) => NamedBefore(batch.i) \cap Present(store) = {}
\* C20: document DeleteBatch converts every id before it sends anything and
\* then sends one multi-document delete for all of them: when the k-th id
\* is malformed the call returns InvalidID and no record has been deleted,
\* those named by ids 1..k-1 included; when it returns no error every named
\* record is gone and no other
C20_ConvertThenDeleteMany ==
    batch.pc = "done" =>
        /\ batch.err = ErrInvalidID => (store = batch.pre /\ batch.tx = "none")
        /\ batch.err = NilErr =>
            (store = Remove(batch.pre, NamedBefore(Len(batch.ids) + 1)) /\ batch.tx = "sent")
        /\ batch.err = DriverError => Present(batch.pre) \ Present(store) \subseteq NamedBefore(Len(batch.ids) + 1)
C20_Witness ==
    /\ batch.pc = "done" /\ batch.err = ErrInvalidID /\ batch.i = 3 /\ Len(batch.ids) = 3
    /\ Named(adapter, batch.ids[1]) \in Present(batch.pre)
    /\ Named(adapter, batch.ids[1]) \in Present(store)
    /\ store = batch.pre

(* ------------- paginated scenarios: a concurrent writer ---------------- *)
\* another caller of the same collection inserts or deletes a document
\* while Execute is between its two round trips
OtherInsert ==
    /\ pg.pc = "counted"
    /\ \E k \in Keys \ Present(store) : store' = (k :> SeedRec(k)) @@ store
    /\ UNCHANGED <<adapter, mq, gq, qtrace, qres, last, ctr, batch, meta, pg, heap>>
OtherDelete ==
    /\ pg.pc = "counted"
    /\ \E k \in Present(store) : store' = Remove(store, {k})
    /\ UNCHANGED <<adapter, mq, gq, qtrace, qres, last, ctr, batch, meta, pg, heap>>

InitRace ==
    /\ adapter = "mongo"
    /\ store \in QueryStores
    /\ pg = NoPage
    /\ heap = NoHeap
    /\ meta = NoMeta
    /\ batch = NoBatch
    /\ ctr = NoCtr
    /\ last = NoOp
    /\ IdleQuery

NextRace ==
    \/ RepoWhere \/ RepoWhereNotNull
    \/ Paginate
    \/ MongoExecuteCount \/ MongoExecuteFetch
    \/ OtherInsert \/ OtherDelete

SpecRace == InitRace /\ [][NextRace]_vars

Returned == pg.pc = "done" /\ pg.err = NilErr

\* C21: the count and the fetch of the document Execute are two store
\* operations with nothing isolating them: the total is the number of
\* matching documents when the count ran, the page holds the documents
\* matching when the fetch ran, and a write in between makes them differ
C21_TwoRoundTrips ==
    Returned =>
        /\ pg.meta.total = Cardinality(MongoMatching(pg.counted, mq.filter))
        /\ pg.rows = MongoQuery_Find(mq, pg.fetched)
        /\ Len(pg.sent) = 2 /\ pg.sent[1].kind = "count" /\ pg.sent[2].kind = "find"
C21_Witness ==
    /\ Returned
    /\ pg.counted # pg.fetched
    /\ pg.meta.total # Cardinality(MongoMatching(pg.fetched, mq.filter))
    /\ pg.meta.total < Len(pg.rows)
C21_WitnessDelete ==
    /\ Returned
    /\ pg.meta.total > Cardinality(MongoMatching(pg.fetched, mq.filter))
    /\ pg.perPage > pg.meta.total /\ pg.page = 1 /\ Len(pg.rows) < pg.meta.total

(* --------------------- paginated scenarios: the page ------------------- *)
\* positions from..to (counted from 1) of a sequence, as far as it goes
Slice(seq, from, to) ==
    LET last_ == IF to < Len(seq) THEN to ELSE Len(seq)
    IN IF last_ < from THEN <<>> ELSE [i \in 1..(last_ - from + 1) |-> seq[from + i - 1]]
Filtered == SortedSeq(Matching(Current))
PageOf(page, perPage) == Slice(Filtered, (page - 1) * perPage + 1, page * perPage)
PagedBuilder == \A i \in 1..Len(qtrace) : qtrace[i].m \in PredicateCalls

\* C22: with no concurrent write Execute returns the records at positions
\* (page-1)*perPage .. page*perPage-1 of the filtered, ordered result for
\* the normalized page and perPage, never more than perPage of them, and
\* meta.total is the number of records matching the filter
C22_PageContents ==
    Returned =>
        /\ Requested(pg.sent[1].page, pg.sent[1].perPage)
        /\ pg.meta.page = pg.page /\ pg.meta.perPage = pg.perPage
        /\ pg.rows = PageOf(pg.page, pg.perPage)
        /\ Len(pg.rows) <= pg.perPage
        /\ pg.meta.total = Len(Filtered)
\* the same for a builder made of predicates only
C22_PredicateBuilders ==
    (Returned /\ PagedBuilder) =>
        /\ Requested(pg.sent[1].page, pg.sent[1].perPage)
        /\ pg.meta.page = pg.page /\ pg.meta.perPage = pg.perPage
        /\ pg.rows = PageOf(pg.page, pg.perPage)
        /\ Len(pg.rows) <= pg.perPage
        /\ pg.meta.total = Len(Filtered)
C22_Witness ==
    /\ Returned /\ PagedBuilder
    /\ pg.page = 2 /\ pg.perPage = 1 /\ pg.meta.total = 3
    /\ Len(pg.rows) = 1 /\ pg.rows = <<Filtered[2]>>

(* ------------------ write scenarios: one call, one record -------------- *)
\* one Update / Delete / Increment / Decrement on a store of any content
GormFrameUpdate == last.name = "none" /\ GormUpdate
MongoFrameUpdate == last.name = "none" /\ MongoUpdate
GormFrameDelete == last.name = "none" /\ GormDelete
MongoFrameDelete == last.name = "none" /\ MongoDelete
FrameCounter ==
    /\ last.name = "none"
    /\ \E id \in CrudIds(adapter), kind \in {"inc", "dec"}, fault \in BOOLEAN :
        LET invalid == adapter = "mongo" /\ ~MongoRepository_toObjectID(id).ok
            req == [kind |-> kind, id |-> id, delta |-> 2]
            err == IF invalid THEN ErrInvalidID ELSE IF fault THEN DriverError ELSE NilErr
        IN Written(IF kind = "inc" THEN "Increment" ELSE "Decrement", id, fault, Rec("", 2),
                   WriteResult(err, IF err = NilErr THEN Effect(adapter, store, req) ELSE store, 0, 0))

NextFrame ==
    \/ GormFrameUpdate \/ MongoFrameUpdate \/ GormFrameDelete \/ MongoFrameDelete
    \/ FrameCounter

SpecFrame == InitCrud /\ [][NextFrame]_vars

\* the record an identifier names, if it names one
Target(a, id) == IF WellFormed(a, id) THEN {Named(a, id)} ELSE {}
OthersUntouched ==
    \A k \in (Present(last.pre) \cup Present(store)) \ Target(adapter, last.id) :
        k \in Present(last.pre) /\ k \in Present(store) /\ store[k] = last.pre[k]
SingleRecordCalls == {"Update", "Delete", "Increment", "Decrement"}

\* C23: Update, Delete, Increment and Decrement change at most the record
\* whose identifier is id; every other record is the same before and after
\* the call, whether it succeeds or fails
C23_OnlyTheIdentified ==
    last.name \in SingleRecordCalls => OthersUntouched
\* that is so on the document adapter, and on the relational adapter for
\* every call but Delete with a string that is not a number
C23_Document ==
    (adapter = "mongo" /\ last.name \in SingleRecordCalls) => OthersUntouched
C23_RelationalButInlineDelete ==
    (adapter = "gorm" /\ last.name \in SingleRecordCalls
        /\ ~(last.name = "Delete" /\ ~WellFormed(adapter, last.id)))
    => OthersUntouched

(* ------------- identifier scenarios: the document adapter -------------- *)
\* one call of each operation of the document repository that takes an
\* identifier or a list of them
InitConvert ==
    /\ adapter = "mongo"
    /\ store = [k \in 1..3 |-> SeedRec(k)]
    /\ last = NoCrud
    /\ batch = NoBatch
    /\ IdleQuery
    /\ ctr = NoCtr
    /\ meta = NoMeta
    /\ pg = NoPage
    /\ heap = NoHeap

ConvertFindByID == last.name = "none" /\ batch.pc = "idle" /\ MongoFindByID
ConvertUpdate == batch.pc = "idle" /\ MongoFrameUpdate
ConvertDelete == batch.pc = "idle" /\ MongoFrameDelete
ConvertCounter == batch.pc = "idle" /\ FrameCounter
ConvertUpdateBatch == last.name = "none" /\ CallUpdateBatch
ConvertDeleteBatch == last.name = "none" /\ MongoDeleteBatch

NextConvert ==
    \/ ConvertFindByID \/ ConvertUpdate \/ ConvertDelete \/ ConvertCounter
    \/ ConvertUpdateBatch \/ MongoBatchStep \/ MongoBatchReturn
    \/ ConvertDeleteBatch

SpecConvert == InitConvert /\ [][NextConvert]_vars

Malformed(id) == ~WellFormed("mongo", id)
\* the identifier a finished batch call stopped at, if it stopped at one
StoppedAt == IF batch.i \in 1..Len(batch.ids) THEN {batch.ids[batch.i]} ELSE {}

C24_WitnessOtherType ==
    /\ last.name = "Increment" /\ last.id = IntId(1) /\ last.err = ErrInvalidID /\ store = last.pre
C24_WitnessBatch ==
    /\ batch.pc = "done" /\ batch.err = ErrInvalidID /\ batch.i = 2 /\ Len(batch.data) = 2
    /\ store # batch.pre

(* ----------------------- sort scenarios ---------------------------------- *)
nonSortVars == <<last, ctr, batch, meta, pg, heap>>
SortFields == {"role", "counter"}
Directions == {"asc", "desc", "ASC", "DESC"}
\* records that tie on either field
SortStores ==
    {<<Rec("user", 1), Rec("admin", 1), Rec("user", 0), Rec("admin", 0)>>,
     <<Rec("admin", 2), Rec("user", 2), Rec("moderator", 0)>>}

InitSort ==
    /\ adapter \in Adapters
    /\ store \in SortStores
    /\ mq = NewMongoQuery(EmptyFilter)
    /\ gq = NewGormQuery(<<>>)
    /\ qtrace = <<>>
    /\ qres = NoRes
    /\ last = NoOp
    /\ ctr = NoCtr
    /\ batch = NoBatch
    /\ meta = NoMeta
    /\ pg = NoPage
    /\ heap = NoHeap

Sorted(field) == \E i \in 1..Len(qtrace) : qtrace[i].field = field /\ qtrace[i].m # "WhereNotNull"
RepoOrderBy == \E f \in SortFields, d \in Directions :
    /\ qtrace = <<>>
    /\ Entry(Call("OrderBy", f, <<d>>), MongoRepository_OrderBy(f, d), GormRepository_OrderBy(f, d))
QOrderBy == \E f \in SortFields, d \in Directions :
    /\ qtrace # <<>> /\ Len(qtrace) <= MaxChain /\ ~Sorted(f)
    /\ Chain(Call("OrderBy", f, <<d>>), MongoQuery_OrderBy(mq, f, d), GormQuery_OrderBy(gq, f, d))
QOrderByDesc == \E f \in SortFields :
    /\ qtrace # <<>> /\ Len(qtrace) <= MaxChain /\ ~Sorted(f)
    /\ Chain(Call("OrderByDesc", f, <<>>), MongoQuery_OrderByDesc(mq, f), GormQuery_OrderByDesc(gq, f))
QOrderByAsc == \E f \in SortFields :
    /\ qtrace # <<>> /\ Len(qtrace) <= MaxChain /\ ~Sorted(f)
    /\ Chain(Call("OrderByAsc", f, <<>>), MongoQuery_OrderByAsc(mq, f), GormQuery_OrderByAsc(gq, f))

NextSort ==
    \/ RepoWhereNotNull \/ RepoOrderBy
    \/ QOrderBy \/ QOrderByDesc \/ QOrderByAsc
    \/ QFind

SpecSort == InitSort /\ [][NextSort]_vars

IsOrderCall(c) == c.m \in {"OrderBy", "OrderByAsc", "OrderByDesc"}
\* the (field, direction) term a call asks for
TermOf(c) ==
    [key |-> c.field,
     value |-> IF c.m = "OrderByDesc" \/ (c.m = "OrderBy" /\ c.args[1] \in {"DESC", "desc"}) THEN -1 ELSE 1]
AskedTerms == LET calls == SelectSeq(qtrace, IsOrderCall) IN [i \in 1..Len(calls) |-> TermOf(calls[i])]
HeldTerms == IF adapter = "mongo" THEN mq.sort ELSE GormSortTerms(gq.orders)

TermKeys(terms) == [i \in 1..Len(terms) |-> terms[i].key]

\* C25: the sort specification holds one term per OrderBy, OrderByAsc and
\* OrderByDesc call, in call order, and a result is ordered by the
\* first-added term, a later term deciding only between records equal on
\* every earlier one
C25_AppendOnlySort ==
    /\ TermKeys(HeldTerms) = TermKeys(AskedTerms)
    /\ qres.hasRows =>
        \A i \in 1..(Len(qres.rows) - 1) :
            Compare(store[qres.rows[i]], store[qres.rows[i + 1]], HeldTerms, 1) <= 0
C25_Witness ==
    /\ adapter = "mongo" /\ qres.hasRows /\ Len(qres.rows) = 4
    /\ HeldTerms = <<[key |-> "role", value |-> 1], [key |-> "counter", value |-> -1]>>
    /\ qres.rows = <<2, 4, 1, 3>>
C25_WitnessGorm ==
    /\ adapter = "gorm" /\ qres.hasRows /\ Len(qres.rows) = 4
    /\ HeldTerms = <<[key |-> "counter", value |-> -1], [key |-> "role", value |-> 1]>>
    /\ qres.rows = <<2, 1, 4, 3>>

\* C30: on the document adapter the repository-level OrderBy and the
\* builder-level OrderBy read every direction string alike, so each term of
\* the sort specification is the one the builder-level reading of its call
\* gives
C30_SameDirection == adapter = "mongo" => HeldTerms = AskedTerms
\* the two agree on every direction but "DESC"
C30_ButUpperDesc ==
    (adapter = "mongo" /\ ~(qtrace # <<>> /\ qtrace[1].m = "OrderBy" /\ qtrace[1].args = <<"DESC">>))
        => HeldTerms = AskedTerms
\* the relational adapter hands the direction to SQL at both levels
C30_Relational == adapter = "gorm" => HeldTerms = AskedTerms

(* -------------------- domain repository: FindByEmail ------------------- *)
\* package repository declares its own not-found sentinel with errors.New:
\* a value other than the one package libraries declares, with the same text
RepositoryErrRecordNotFound == "repository.ErrRecordNotFound"
NotFoundMessage(email) == <<"user with email ", email, " not found">>
\* userRepository.FindByEmail / userMongoRepository.FindByEmail: the error of
\* First is compared with the package's sentinel by ==
UserRepository_FindByEmail(err, email) ==
    IF err = RepositoryErrRecordNotFound THEN Errorf(NotFoundMessage(email)) ELSE ErrVal(err)

Emails == {"ann@x.io", "bob@x.io", "cy@x.io"}
User(email) == [email |-> email, role |-> "user", counter |-> 0]
UserStores == {[k \in 1..Len(es) |-> User(es[k])] : es \in SeqsUpTo(Emails, Cardinality(Emails))}
EmailOp(name, email, fault, found, err) ==
    [name |-> name, email |-> email, fault |-> fault, found |-> found, err |-> err]

InitEmail ==
    /\ adapter \in Adapters
    /\ store \in UserStores
    /\ last = EmailOp("none", "", FALSE, Outcome(NilErr, 0), ErrVal(NilErr))
    /\ IdleQuery
    /\ ctr = NoCtr
    /\ batch = NoBatch
    /\ meta = NoMeta
    /\ pg = NoPage
    /\ heap = NoHeap

EmailCall(email, fault, found) ==
    /\ last' = EmailOp("FindByEmail", email, fault, found,
                       IF found.err = NilErr THEN ErrVal(NilErr)
                       ELSE UserRepository_FindByEmail(found.err, email))
    /\ UNCHANGED <<adapter, store, mq, gq, qtrace, qres, ctr, batch, meta, pg, heap>>
GormFindByEmail ==
    /\ adapter = "gorm"
    /\ \E email \in Emails, fault \in BOOLEAN :
        EmailCall(email, fault, GormQuery_First(GormRepository_Where("email", email), store, fault))
MongoFindByEmail ==
    /\ adapter = "mongo"
    /\ \E email \in Emails, fault \in BOOLEAN :
        EmailCall(email, fault, MongoQuery_First(MongoRepository_Where("email", email), store, fault))

NextEmail == GormFindByEmail \/ MongoFindByEmail

SpecEmail == InitEmail /\ [][NextEmail]_vars

NoSuchUser == ~\E k \in Present(store) : store[k].email = last.email

\* C29: when no user has the email, FindByEmail returns the error
\* "user with email <email> not found"
C29_DescriptiveError ==
    (last.name = "FindByEmail" /\ ~last.fault /\ NoSuchUser) =>
        last.err = Errorf(NotFoundMessage(last.email))
\* First answers with the generic sentinel, which FindByEmail passes on
C29_GenericSentinel ==
    (last.name = "FindByEmail" /\ ~last.fault /\ NoSuchUser) =>
        (last.found.err = ErrRecordNotFound /\ last.err = ErrVal(ErrRecordNotFound))
\* a user with the email is found; any other error is passed on
C29_OtherOutcomes ==
    /\ (last.name = "FindByEmail" /\ ~last.fault /\ ~NoSuchUser) =>
        (last.err = ErrVal(NilErr) /\ store[last.found.key].email = last.email)
    /\ (last.name = "FindByEmail" /\ last.fault) => last.err = ErrVal(DriverError)

====
